---- MODULE Spec2Model ----
(***************************************************************************)
(* quick-lint-js: configuration lookup, configuration cache and change     *)
(* detection.                                                              *)
(*                                                                         *)
(* Two programs are modelled over one filesystem:                          *)
(*   - configuration_change_detector_impl (configuration-change-           *)
(*     detector.cpp) on one of its filesystem backends, chosen by the      *)
(*     variable backend: inotify, kqueue or win32                          *)
(*     (configuration-change-detector-{inotify,kqueue,win32}.cpp);         *)
(*   - configuration_loader (configuration-loader.cpp).                    *)
(* A behaviour runs one of them (variable program), interleaved with       *)
(* filesystem mutations made by other processes.                           *)
(***************************************************************************)
EXTENDS Integers, Sequences, FiniteSets, TLC

(***************************************************************************)
(* Bounds of the model.                                                    *)
(***************************************************************************)
MaxLoads == 2        \* get_config_for_file / load_for_file calls per behaviour
MaxMutations == 1    \* filesystem mutations per behaviour
MaxBatch == 2        \* filesystem mutations of a behaviour that creates a project directory
MaxOpenFiles == 12   \* descriptors the kqueue backend can hold open (RLIMIT_NOFILE)

(***************************************************************************)
(* Filesystem universe.  A path is a sequence of components; <<>> is the   *)
(* root.                                                                   *)
(***************************************************************************)
ConfigFileNames == <<"quick-lint-js.config", ".quick-lint-js.config">>

ConfigNameSet == {ConfigFileNames[k] : k \in 1..Len(ConfigFileNames)}

JsName == "hello.js"

DirPaths == {<<>>, <<"dir">>, <<"newdir">>}

SourceDirs == {<<>>, <<"dir">>}

SourcePaths == {Append(d, JsName) : d \in SourceDirs}

Contents == {"{}", "{a}"}

\* Directory identities: the two of the initial state and one for every
\* directory a mutation can create.
Inodes == 1..(MaxMutations + 2)

\* std::optional
None == <<>>

Some(v) == <<v>>

VARIABLES
  program,                \* "detector" | "loader"
  backend,                \* the configuration_filesystem the build selects
  crashed,                \* QLJS_UNIMPLEMENTED() / failed assertion reached
  \* ---- filesystem (environment)
  fs_dirs,                \* DirPaths -> inode of the directory there, 0 if none
  fs_cfg,                 \* inode -> config name -> "none", "directory" or the bytes of the file
  fs_js,                  \* inodes of the directories that contain JsName
  next_inode,
  mutations,
  budget,                 \* the mutations the environment makes at most
  \* ---- inotify instance (kernel side) and configuration_filesystem_inotify
  inotify_watches,        \* inode -> watch descriptor, 0 if not watched
  inotify_queue,          \* number of queued, unread events
  watch_descriptors_,
  \* ---- kqueue (kernel side) and configuration_filesystem_kqueue
  kqueue_watched_,        \* the vnodes the descriptors of watched_directories_ are open on
  kqueue_triggered,       \* some registered vnode event has fired
  kqueue_watched_directories_,  \* number of descriptors held in watched_directories_
  \* ---- configuration_filesystem_win32
  win32_watched_directories_,  \* directory path -> watched_directory
  io_completion_port_,    \* completions queued for the I/O thread, oldest first
  change_event_,
  io_thread_,             \* the completion the I/O thread has dequeued, and how far it is with it
  watched_directories_mutex_,  \* "unlocked", or the thread that holds it
  in_destructor,          \* how far the host is in the destructor of the configuration_filesystem
  in_process_changes,     \* how many steps of a process_changes call are done
  \* ---- configuration_change_detector_impl
  watches_,
  in_get_config_file,     \* a get_config_file call between canonicalize_path and its walk
  fs_calls,               \* the calls on fs_ of the last host call, one sequence per get_config_file
  loaded_config_files_,   \* config path -> loaded_config_file (both programs)
  next_address,           \* allocator of loaded_config_file nodes
  \* ---- configuration_loader
  watched_paths_,
  input_path_config_files_,
  \* ---- what the host has seen
  timed_out,              \* the wait of the last poll found no signal
  changes,                \* the change list of the last refresh
  returned,               \* result of the last get_config_for_file/load_for_file
  handed_out,             \* every <<resolved config path, pointer>> given out
  host_view,              \* per source: config and bytes last given to the host
  last_read,              \* config path -> bytes a resolver pass last read there
  pre_view,               \* host_view when the last refresh began
  pre_read,               \* last_read when the last refresh began
  loads,                  \* get_config_for_file / load_for_file calls made
  given_paths,            \* the path strings the host registered, in order
  last_op,
  quiet,                  \* the last refresh began with no mutation since the call before
  was_stale,              \* value of stale when the last refresh began
  stale                   \* a mutation happened after the sources were resolved

vars == <<program, backend, watched_directories_mutex_, in_destructor,
          in_process_changes, in_get_config_file, fs_calls, io_thread_, crashed, fs_dirs, fs_cfg, fs_js, next_inode, mutations,
          budget,
          inotify_watches, inotify_queue, watch_descriptors_,
          kqueue_watched_, kqueue_triggered, kqueue_watched_directories_,
          win32_watched_directories_, io_completion_port_, change_event_,
          watches_, loaded_config_files_, next_address,
          watched_paths_, input_path_config_files_,
          timed_out, changes, returned, handed_out, host_view,
          last_read, pre_view, pre_read, loads, given_paths, last_op, quiet,
          was_stale, stale>>

fs_vars == <<fs_dirs, fs_cfg, fs_js, next_inode, mutations, budget>>

inotify_vars == <<inotify_watches, inotify_queue, watch_descriptors_>>

kqueue_vars == <<kqueue_watched_, kqueue_triggered, kqueue_watched_directories_>>

win32_vars == <<win32_watched_directories_, io_completion_port_, change_event_>>

detector_vars == <<watches_>>

loader_vars == <<watched_paths_, input_path_config_files_>>

(***************************************************************************)
(* canonical_path                                                          *)
(***************************************************************************)
Parent(path) == SubSeq(path, 1, Len(path) - 1)

\* canonical_path::append_component
AppendComponent(path, name) == Append(path, name)

\* Faulty variant: the loop ends before it has searched the root.
WalkStoppingBeforeRoot(directory) ==
  [k \in 1..Len(directory) |-> SubSeq(directory, 1, Len(directory) + 1 - k)]

\* The directories visited by `for (;;) { ...; if (!parent()) break; }`.
Walk(directory) ==
  [k \in 1..(Len(directory) + 1) |-> SubSeq(directory, 1, Len(directory) + 1 - k)]

(***************************************************************************)
(* Filesystem primitives used by the programs.                             *)
(***************************************************************************)
DirExists(path) == path \in DirPaths /\ fs_dirs[path] # 0

\* Does the entry `path` exist (a directory, or the JavaScript file)?
EntryExists(path) ==
  \/ DirExists(path)
  \/ /\ Len(path) > 0
     /\ path[Len(path)] = JsName
     /\ DirExists(Parent(path))
     /\ fs_dirs[Parent(path)] \in fs_js

RECURSIVE ExistingLength(_, _)
ExistingLength(path, k) ==
  IF k < Len(path) /\ EntryExists(SubSeq(path, 1, k + 1))
    THEN ExistingLength(path, k + 1)
    ELSE k

\* quick_lint_js::canonicalize_path: the input paths of the model are
\* absolute and free of ".", ".." and symlinks, so the canonical path has
\* the components of the input; the result records how many of them exist.
CanonicalizePath(path) ==
  [ok |-> TRUE, path |-> path, existing_path_length |-> ExistingLength(path, 0)]

HaveMissingComponents(r) == r.existing_path_length < Len(r.path)

DropMissingComponents(r) == SubSeq(r.path, 1, r.existing_path_length)

\* (mutation) the final component is dropped in either case.
ParentDirectoryAlwaysDropping(input_path) ==
  LET canonical_input_path == CanonicalizePath(input_path) IN
  IF HaveMissingComponents(canonical_input_path)
    THEN Parent(DropMissingComponents(canonical_input_path))
    ELSE Parent(canonical_input_path.path)

\* The directory where the ancestor walk of an input path starts.
ParentDirectory(input_path) ==
  LET canonical_input_path == CanonicalizePath(input_path) IN
  IF HaveMissingComponents(canonical_input_path)
    THEN DropMissingComponents(canonical_input_path)
    ELSE Parent(canonical_input_path.path)

\* quick_lint_js::read_file on the path directory/file_name.
ReadPath(config_path) ==
  LET directory == Parent(config_path)
      kind == IF DirExists(directory)
                THEN fs_cfg[fs_dirs[directory]][config_path[Len(config_path)]]
                ELSE "none"
  IN [ok |-> kind \in Contents,
      content |-> IF kind \in Contents THEN kind ELSE "",
      is_not_found_error |-> kind = "none"]

ReadFile(directory, file_name) == ReadPath(AppendComponent(directory, file_name))

(***************************************************************************)
(* The search order of both programs: within a directory the names in      *)
(* ConfigFileNames order, then the parent directory.                       *)
(***************************************************************************)
NotFound == [status |-> "not_found", config_path |-> <<>>, content |-> "", depth |-> 0]

\* for (const std::string_view& file_name : {...}) in one directory, reading
\* each candidate.
RECURSIVE ScanNames(_, _)
ScanNames(directory, k) ==
  IF k > Len(ConfigFileNames) THEN NotFound
  ELSE LET result == ReadFile(directory, ConfigFileNames[k])
           config_path == AppendComponent(directory, ConfigFileNames[k])
       IN IF result.ok
            THEN [status |-> "found", config_path |-> config_path,
                  content |-> result.content, depth |-> 0]
          ELSE IF result.is_not_found_error
            THEN ScanNames(directory, k + 1)
          ELSE [status |-> "error", config_path |-> config_path,
                content |-> "", depth |-> 0]

\* for (;;) over the directories of walk, from walk[k] on.  depth is the
\* index of the directory where the search stopped.
RECURSIVE ScanWalk(_, _)
ScanWalk(walk, k) ==
  IF k > Len(walk) THEN [NotFound EXCEPT !.depth = Len(walk)]
  ELSE LET s == ScanNames(walk[k], 1)
       IN IF s.status = "not_found" THEN ScanWalk(walk, k + 1)
          ELSE [s EXCEPT !.depth = k]

(***************************************************************************)
(* configuration (only what the cache needs of it)                         *)
(***************************************************************************)
DefaultAddress == 0

NewConfiguration == [config_file_path |-> None, json |-> ""]

\* configuration::reset: forgets what was loaded; the recorded path stays.
reset(config) == [config EXCEPT !.json = ""]

set_config_file_path(config, path) == [config EXCEPT !.config_file_path = Some(path)]

load_from_json(config, file_content) == [config EXCEPT !.json = file_content]

\* A default-constructed loaded_config_file in a freshly allocated map node.
NewLoadedConfigFile(address) ==
  [file_content |-> "", config |-> NewConfiguration, address |-> address]

\* Faulty variant: a map that allocates a new node for a key it already has.
EmplaceRelocating(cache, config_path, address) ==
  [p \in DOMAIN cache \cup {config_path} |->
     IF p = config_path THEN NewLoadedConfigFile(address) ELSE cache[p]]

\* std::unordered_map::emplace(config_path): the existing node, or a new one.
Emplace(cache, config_path, address) ==
  IF config_path \in DOMAIN cache THEN cache
  ELSE [p \in DOMAIN cache \cup {config_path} |->
          IF p = config_path THEN NewLoadedConfigFile(address) ELSE cache[p]]

\* (mutation) with no config file found, the config of a loaded file.
ConfigPointerOfLoaded(cache, config_file) ==
  IF config_file # None THEN cache[config_file[1]].address
  ELSE IF DOMAIN cache = {} THEN DefaultAddress
  ELSE cache[CHOOSE p \in DOMAIN cache : TRUE].address

\* &config_file->config, or &default_config_ for nullptr.
ConfigPointer(cache, config_file) ==
  IF config_file = None THEN DefaultAddress ELSE cache[config_file[1]].address

(***************************************************************************)
(* configuration_filesystem_inotify                                        *)
(***************************************************************************)
\* inotify_add_watch: one watch per directory identity; adding a watch for
\* an identity that is already watched returns its descriptor again.
\* N is the state of the backend in use plus failed, which records that a
\* backend call ended in QLJS_UNIMPLEMENTED().
inotify_watch_directory(N, directory) ==
  IF ~DirExists(directory) THEN [N EXCEPT !.failed = TRUE]
  ELSE LET inode == fs_dirs[directory]
           used == {N.watches[i] : i \in DOMAIN N.watches}
           watch_descriptor == IF N.watches[inode] # 0 THEN N.watches[inode]
                               ELSE (CHOOSE m \in used : \A w \in used : w <= m) + 1
           present == \E k \in 1..Len(N.descriptors) :
                         N.descriptors[k] = watch_descriptor
       IN [N EXCEPT !.watches[inode] = watch_descriptor,
                    !.descriptors = IF present THEN @ ELSE Append(@, watch_descriptor)]

(***************************************************************************)
(* configuration_filesystem_kqueue.  watched_directories_ holds one open   *)
(* descriptor per watch_directory call and per file read; kqueue_watched_  *)
(* is the set of vnodes those descriptors name that are still linked at    *)
(* the place they were opened.                                             *)
(***************************************************************************)
DirVnode(inode) == <<"dir", inode>>

FileVnode(inode, name) == <<"file", inode, name>>

\* open(directory, O_RDONLY | O_EVTONLY), EV_ADD of an EVFILT_VNODE event
\* and watched_directories_.emplace_back, on every call ("@@@ don't
\* duplicate watches"); open fails when the directory is missing or the
\* process has no descriptor left.
kqueue_watch_directory(N, directory) ==
  IF ~DirExists(directory) \/ N.fds >= MaxOpenFiles THEN [N EXCEPT !.failed = TRUE]
  ELSE [N EXCEPT !.kqueue = @ \cup {DirVnode(fs_dirs[directory])},
                 !.fds = @ + 1]

\* watch_file on the descriptor of a file that read_file has read; the
\* descriptor of a file that cannot be read is closed again.
kqueue_read_file(N, found) ==
  IF found.status # "found" THEN N
  ELSE IF N.fds >= MaxOpenFiles THEN [N EXCEPT !.failed = TRUE]
  ELSE [N EXCEPT !.kqueue = @ \cup {FileVnode(fs_dirs[Parent(found.config_path)],
                                              found.config_path[Len(found.config_path)])},
                 !.fds = @ + 1]

(***************************************************************************)
(* configuration_filesystem_win32.  A watched_directory is                 *)
(* [directory_id, oplock]: oplock is "held" while the request is pending,  *)
(* "broken" or "cancelled" once its completion is in the completion port.  *)
(***************************************************************************)
\* What GetQueuedCompletionStatus gives for a directory's oplock request,
\* and for the completion the destructor posts.
Completion(directory, aborted) ==
  [key |-> "directory", directory |-> directory, aborted |-> aborted]

StopIoThread == [key |-> "stop_io_thread", directory |-> <<>>, aborted |-> FALSE]

\* Faulty variant: the handler erases the entry and wakes nobody.
HandlerStepsWithoutNotify == <<"erase", "SetEvent", "unlock">>

\* Faulty variant: the handler never sets the change event.
HandlerStepsWithoutEvent == <<"erase", "notify_all", "unlock">>

\* Faulty variant: the change event set before the entry is erased.
HandlerStepsEventFirst == <<"SetEvent", "erase", "notify_all", "unlock">>

\* What handle_directory_event does once it has locked
\* watched_directories_mutex_, in program order; the lock is released when
\* the function returns.
HandlerSteps == <<"erase", "notify_all", "SetEvent", "unlock">>

\* A handler that sets the change event for a cancelled watch too.
HandlerStepSettingEvent(N, completion, step) ==
  IF step = "erase"
    THEN [N EXCEPT !.win32 = [p \in DOMAIN @ \ {completion.directory} |-> @[p]]]
  ELSE IF step = "SetEvent"
    THEN [N EXCEPT !.event = TRUE]
  ELSE N

\* One of these steps.  erase is find_watched_directory, whose assertion
\* wants the entry of the completed request in the map, and the erase;
\* notify_all wakes a host that waits on watched_directory_unwatched_, which
\* cannot go on before it has the mutex again.
HandlerStep(N, completion, step) ==
  IF step = "erase"
    THEN IF \/ completion.directory \notin DOMAIN N.win32
            \/ N.win32[completion.directory].oplock = "held"
           THEN [N EXCEPT !.failed = TRUE]
           ELSE [N EXCEPT !.win32 = [p \in DOMAIN @ \ {completion.directory} |-> @[p]]]
  ELSE IF step = "SetEvent"
    THEN [N EXCEPT !.event = @ \/ ~completion.aborted]
  ELSE N

RECURSIVE HandleFrom(_, _, _)
HandleFrom(N, completion, k) ==
  IF k > Len(HandlerSteps) \/ N.failed THEN N
  ELSE HandleFrom(HandlerStep(N, completion, HandlerSteps[k]), completion, k + 1)

\* handle_directory_event: erases the entry, then SetEvent unless aborted.
handle_directory_event(N, completion) == HandleFrom(N, completion, 1)

\* run_io_thread while the host blocks in wait_until_watch_cancelled.
RECURSIVE wait_until_watch_cancelled(_, _)
wait_until_watch_cancelled(N, directory) ==
  IF directory \notin DOMAIN N.win32 \/ N.iocp = <<>> THEN N
  ELSE wait_until_watch_cancelled(
         handle_directory_event([N EXCEPT !.iocp = Tail(@)], Head(N.iocp)),
         directory)

\* A begin_cancel whose CancelIoEx queues a completion for a request that
\* has completed already.
BeginCancelCompleted(N, directory) ==
  [N EXCEPT !.win32[directory].oplock = "cancelled",
            !.iocp = Append(@, Completion(directory, TRUE))]

\* CancelIoEx: a pending oplock request completes as aborted; a request
\* that has completed already has nothing to cancel (ERROR_NOT_FOUND).
begin_cancel(N, directory) ==
  IF N.win32[directory].oplock = "held"
    THEN [N EXCEPT !.win32[directory].oplock = "cancelled",
                   !.iocp = Append(@, Completion(directory, TRUE))]
    ELSE N

\* try_emplace of a fresh entry and FSCTL_REQUEST_OPLOCK on its handle.
RequestOplock(N, directory, directory_id) ==
  [N EXCEPT !.win32 = [p \in DOMAIN @ \cup {directory} |->
                         IF p = directory
                           THEN [directory_id |-> directory_id, oplock |-> "held"]
                           ELSE @[p]]]

\* Faulty variant: an entry under the path counts as already watched.
WatchDirectoryTrustingPath(N, directory) ==
  IF ~DirExists(directory) THEN [N EXCEPT !.failed = TRUE]
  ELSE IF directory \notin DOMAIN N.win32
    THEN RequestOplock(N, directory, fs_dirs[directory])
  ELSE N

win32_watch_directory(N, directory) ==
  IF ~DirExists(directory) THEN [N EXCEPT !.failed = TRUE]
  ELSE LET directory_id == fs_dirs[directory] IN
       IF directory \notin DOMAIN N.win32
         THEN RequestOplock(N, directory, directory_id)
       ELSE IF N.win32[directory].directory_id = directory_id
         THEN N
       ELSE RequestOplock(
              wait_until_watch_cancelled(begin_cancel(N, directory), directory),
              directory, directory_id)

(***************************************************************************)
(* configuration_filesystem, as the build selects it.                      *)
(***************************************************************************)
enter_directory(N, directory) ==
  LET M == [N EXCEPT !.calls[Len(N.calls)] =
                      Append(@, [call |-> "enter_directory", directory |-> directory,
                                 name |-> "", ok |-> TRUE])]
  IN IF backend = "inotify" THEN inotify_watch_directory(M, directory)
     ELSE IF backend = "kqueue" THEN kqueue_watch_directory(M, directory)
     ELSE win32_watch_directory(M, directory)

\* How many names the name loop reads in a directory when its outcome is s:
\* it stops at the name that was read or failed with another error.
NamesRead(s) ==
  IF s.status = "not_found" THEN Len(ConfigFileNames)
  ELSE CHOOSE k \in 1..Len(ConfigFileNames) :
         ConfigFileNames[k] = s.config_path[Len(s.config_path)]

\* Faulty variant: every name read in the parent of the entered directory.
ReadCallsOutside(directory, s) ==
  [k \in 1..NamesRead(s) |->
     [call |-> "read_file", directory |-> Parent(directory),
      name |-> ConfigFileNames[k],
      ok |-> s.status = "found" /\ k = NamesRead(s)]]

\* The read_file(directory, file_name) calls of the name loop.
ReadCalls(directory, s) ==
  [k \in 1..NamesRead(s) |->
     [call |-> "read_file", directory |-> directory,
      name |-> ConfigFileNames[k],
      ok |-> s.status = "found" /\ k = NamesRead(s)]]

\* The read_file calls of the name loop in directory, whose outcome is s, and
\* what they leave in the backend.
read_file(N, directory, s) ==
  LET M == [N EXCEPT !.calls[Len(N.calls)] = @ \o ReadCalls(directory, s)]
  IN IF backend = "kqueue" THEN kqueue_read_file(M, s) ELSE M

\* read_inotify: reads until EAGAIN, so nothing stays queued.
read_inotify(queue) == 0

(***************************************************************************)
(* configuration_change_detector_impl                                      *)
(***************************************************************************)
\* Faulty variant: the two comparisons joined by || instead of &&.
DidChangeOr(watch, config_file, config_path, content) ==
  ~(Some(config_path) = watch.config_file_path \/ content = config_file.file_content)

\* Faulty variant: the bytes compared, the path not.
DidChangeContentOnly(watch, config_file, config_path, content) ==
  ~(content = config_file.file_content)

\* Faulty variant: the watch only asked whether it has a path recorded.
DidChangeHasPath(watch, config_file, config_path, content) ==
  ~(watch.config_file_path # None /\ content = config_file.file_content)

\* did_change for a config file found at config_path with the given bytes.
DidChange(watch, config_file, config_path, content) ==
  ~(Some(config_path) = watch.config_file_path /\ content = config_file.file_content)

\* Faulty variant: the watch records the directory the config file is in.
SetConfigFilePathToDirectory(watches, i, config_path) ==
  [watches EXCEPT ![i].config_file_path = Some(Parent(config_path))]

\* watch.config_file_path = config_path;
SetConfigFilePath(watches, i, config_path) ==
  [watches EXCEPT ![i].config_file_path = Some(config_path)]

\* Faulty variant: the names are looked up in the ancestors of the hit too.
SearchAlways(found) == TRUE

\* if (!found_config)
SearchHere(found) == found.status = "not_found"

\* for (;;) of get_config_file over walk[k..]: enter_directory, then the
\* name loop unless a config file was found further down.  A failed watch
\* or read ends the program where it happens.
RECURSIVE WalkDirectories(_, _, _, _)
WalkDirectories(N, walk, k, found) ==
  LET NameLoop(read, s) ==
        IF s.status = "error" \/ read.failed
          THEN [notify |-> read, found |-> s]
          ELSE WalkDirectories(read, walk, k + 1, s)
      Names(entered, s) == NameLoop(read_file(entered, walk[k], s), s)
      Iteration(entered) ==
        IF entered.failed THEN [notify |-> entered, found |-> found]
        ELSE IF ~SearchHere(found) THEN WalkDirectories(entered, walk, k + 1, found)
        ELSE Names(entered, [ScanNames(walk[k], 1) EXCEPT !.depth = k])
  IN IF k > Len(walk) THEN [notify |-> N, found |-> found]
     ELSE Iteration(enter_directory(N, walk[k]))

\* get_config_file for watches_[i], from the walk on: parent_directory is
\* what canonicalize_path and drop_missing_components / parent() gave.
\* S is [watches, cache, next_address, notify, crashed]; the result extends
\* it by did_change and config_file (None for nullptr).
get_config_file_walk(S, i, parent_directory) ==
  LET watch == S.watches[i]
      AfterLoop(found, notify) ==
        IF found.status = "error" \/ notify.failed
          THEN [watches |-> S.watches, cache |-> S.cache,
                next_address |-> S.next_address, notify |-> notify,
                crashed |-> TRUE, did_change |-> FALSE, config_file |-> None]
        ELSE IF found.status = "found"
          THEN LET config_path == found.config_path
                   inserted == config_path \notin DOMAIN S.cache
                   cache1 == Emplace(S.cache, config_path, S.next_address)
                   config_file == cache1[config_path]
                   did_change == DidChange(watch, config_file, config_path, found.content)
                   loaded == load_from_json(
                               IF inserted
                                 THEN set_config_file_path(reset(config_file.config),
                                                           config_path)
                                 ELSE reset(config_file.config),
                               found.content)
               IN [watches |-> IF did_change
                                 THEN SetConfigFilePath(S.watches, i, config_path)
                                 ELSE S.watches,
                   cache |-> IF did_change
                               THEN [cache1 EXCEPT
                                       ![config_path].file_content = found.content,
                                       ![config_path].config = loaded]
                               ELSE cache1,
                   next_address |-> IF inserted THEN S.next_address + 1
                                    ELSE S.next_address,
                   notify |-> notify,
                   crashed |-> S.crashed,
                   did_change |-> did_change,
                   config_file |-> Some(config_path)]
        ELSE [watches |-> [S.watches EXCEPT ![i].config_file_path = None],
              cache |-> S.cache,
              next_address |-> S.next_address,
              notify |-> notify,
              crashed |-> S.crashed,
              did_change |-> watch.config_file_path # None,
              config_file |-> None]
      Walked(walked) == AfterLoop(walked.found, walked.notify)
  IN Walked(WalkDirectories([S.notify EXCEPT !.calls = Append(@, <<>>)],
                            Walk(parent_directory), 1, NotFound))

\* get_config_file for watches_[i].
get_config_file(S, i) ==
  get_config_file_walk(S, i, ParentDirectory(S.watches[i].watched_file_path))

\* (mutation) every change points at the first registered source.
ConfigurationChangeOfFirst(watch, watched_path, config, config_file) ==
  [watch |-> 1, watched_path |-> watched_path, config |-> config,
   config_file |-> config_file]

\* (mutation) the change names the source by the path it resolves to now.
ConfigurationChangeRelocated(watch, watched_path, config, config_file) ==
  [watch |-> watch, watched_path |-> Append(ParentDirectory(watched_path), JsName),
   config |-> config, config_file |-> config_file]

\* One configuration_change: watched_path points at the string of registered
\* source number watch, config is the pointer.  config_file notes which
\* canonical config path the resolver had found (None: no config).
ConfigurationChange(watch, watched_path, config, config_file) ==
  [watch |-> watch, watched_path |-> watched_path, config |-> config,
   config_file |-> config_file]

\* refresh: for (watched_file& watch : this->watches_), from watch i on.
\* R is [watches, cache, next_address, notify, crashed, out_changes].
RECURSIVE refresh(_, _)
refresh(R, i) ==
  IF i > Len(R.watches) \/ R.crashed THEN R
  ELSE LET Got(g) ==
             refresh([watches |-> g.watches, cache |-> g.cache,
                      next_address |-> g.next_address, notify |-> g.notify,
                      crashed |-> g.crashed,
                      out_changes |->
                        IF g.did_change /\ ~g.crashed
                          THEN Append(R.out_changes,
                                 ConfigurationChange(i, g.watches[i].watched_file_path,
                                                     ConfigPointer(g.cache, g.config_file),
                                                     g.config_file))
                          ELSE R.out_changes],
                     i + 1)
       IN Got(get_config_file(R, i))

(***************************************************************************)
(* What the host sees.                                                     *)
(***************************************************************************)
\* *pointer for a configuration* handed out by the program.
Deref(cache, address) ==
  IF address = DefaultAddress THEN NewConfiguration
  ELSE cache[CHOOSE p \in DOMAIN cache : cache[p].address = address].config

\* What a host holds for a source whose load_for_file returned an error.
ErrorView == [config_file_path |-> None, content |-> "error"]

\* The host's view of a source: the config path and the bytes of the
\* configuration object it was last given for it.
View(cache, address) ==
  [config_file_path |-> Deref(cache, address).config_file_path,
   content |-> Deref(cache, address).json]

\* The view a correct resolution of input_path gives on the current
\* filesystem: the nearest config file in ConfigFileNames order.
Governing(input_path) ==
  LET found == ScanWalk(Walk(ParentDirectory(input_path)), 1)
  IN IF found.status = "found"
       THEN [config_file_path |-> Some(found.config_path), content |-> found.content]
     ELSE IF found.status = "error" THEN ErrorView
     ELSE [config_file_path |-> None, content |-> ""]

\* last_read after a resolver pass has read the governing config files of
\* the given input paths.
ReadGoverning(input_paths) ==
  LET now == {Governing(q) : q \in input_paths}
      read == {v.config_file_path[1] : v \in {w \in now : w.config_file_path # None}}
  IN [c \in DOMAIN last_read \cup read |->
        IF c \in read THEN ReadPath(c).content ELSE last_read[c]]

RECURSIVE ApplyChanges(_, _, _, _)
ApplyChanges(view, cache, out_changes, k) ==
  IF k > Len(out_changes) THEN view
  ELSE ApplyChanges([view EXCEPT ![out_changes[k].watch] = View(cache, out_changes[k].config)],
                    cache, out_changes, k + 1)

Registered == Len(watches_) + Len(watched_paths_)

\* configuration_or_error: a pointer, or an error message about a path.
Result(config) == [ok |-> TRUE, config |-> config, error |-> <<>>]

Error(path) == [ok |-> FALSE, config |-> DefaultAddress, error |-> path]

\* What the host got from its last call: the result, with the input path it
\* asked about (None: no path) and the canonical config path the result was
\* resolved to (None: no config file).
HostReturn(result, input, config_file) ==
  [ok |-> result.ok, config |-> result.config, error |-> result.error,
   input |-> input, config_file |-> config_file]

NoResult ==
  [ok |-> FALSE, config |-> DefaultAddress, error |-> <<>>,
   input |-> None, config_file |-> None]

(***************************************************************************)
(* configuration_loader                                                    *)
(***************************************************************************)
\* found_config_file
FoundConfigFile(path, already_loaded, file_content, error) ==
  [path |-> path, already_loaded |-> already_loaded,
   file_content |-> file_content, error |-> error]

\* get_loaded_config(path) != nullptr
get_loaded_config(cache, path) == path \in DOMAIN cache

\* The two loops of find_config_file_in_directory_and_ancestors, from
\* directory walk[k] and name ConfigFileNames[n] on.
RECURSIVE find_config_file_from(_, _, _, _, _)
find_config_file_from(cache, walk, k, n, check_loaded) ==
  IF k > Len(walk) THEN FoundConfigFile(None, FALSE, "", "")
  ELSE IF n > Len(ConfigFileNames)
    THEN find_config_file_from(cache, walk, k + 1, 1, check_loaded)
  ELSE LET config_path == AppendComponent(walk[k], ConfigFileNames[n])
           config_json == ReadPath(config_path)
       IN IF check_loaded /\ get_loaded_config(cache, config_path)
            THEN FoundConfigFile(Some(config_path), TRUE, "", "")
          ELSE IF config_json.ok
            THEN FoundConfigFile(Some(config_path), FALSE, config_json.content, "")
          ELSE IF ~config_json.is_not_found_error
            THEN FoundConfigFile(Some(config_path), FALSE, "", "read error")
          ELSE find_config_file_from(cache, walk, k, n + 1, check_loaded)

find_config_file_in_directory_and_ancestors(cache, parent_directory, check_loaded) ==
  find_config_file_from(cache, Walk(parent_directory), 1, 1, check_loaded)

\* The loader state L is [cache, next_address, input_map, crashed]; a call
\* returns it with result (configuration_or_error) and config_file (the
\* canonical path of the config the result points into, None for
\* default_config_ and for errors).
LoaderReturn(L, result, config_file) ==
  [cache |-> L.cache, next_address |-> L.next_address,
   input_map |-> L.input_map, crashed |-> L.crashed,
   result |-> result, config_file |-> config_file]

\* Faulty variant: the new configuration loaded without its path being set.
LoadNewWithoutPath(cache, config_path, address, file_content) ==
  [Emplace(cache, config_path, address) EXCEPT
     ![config_path].file_content = file_content,
     ![config_path].config = load_from_json(@, file_content)]

\* emplace + file_content = ...; set_config_file_path; load_from_json
LoadNew(cache, config_path, address, file_content) ==
  [Emplace(cache, config_path, address) EXCEPT
     ![config_path].file_content = file_content,
     ![config_path].config =
        load_from_json(set_config_file_path(@, config_path), file_content)]

find_and_load_config_file_in_directory_and_ancestors(L, parent_directory, input_path) ==
  LET found == find_config_file_in_directory_and_ancestors(L.cache, parent_directory, TRUE)
  IN
  IF found.error # "" THEN LoaderReturn(L, Error(found.path[1]), None)
  ELSE IF found.path = None THEN LoaderReturn(L, Result(DefaultAddress), None)
  ELSE
    LET config_path == found.path[1]
        inserted_input == input_path = None \/ input_path[1] \notin DOMAIN L.input_map
        input_map == IF input_path = None \/ ~inserted_input THEN L.input_map
                     ELSE [q \in DOMAIN L.input_map \cup {input_path[1]} |->
                             IF q = input_path[1] THEN config_path ELSE L.input_map[q]]
        L1 == [L EXCEPT !.input_map = input_map,
                        !.crashed = @ \/ ~inserted_input]
    IN IF ~inserted_input THEN LoaderReturn(L1, NoResult, None)
       ELSE IF found.already_loaded
         THEN LoaderReturn(L1, Result(L1.cache[config_path].address), Some(config_path))
       ELSE LoaderReturn(
              [L1 EXCEPT !.cache = LoadNew(@, config_path, L.next_address,
                                           found.file_content),
                         !.next_address = @ + 1],
              Result(L.next_address), Some(config_path))

find_and_load_config_file_for_input(L, input_path) ==
  IF input_path \in DOMAIN L.input_map
    THEN LET config_path == L.input_map[input_path]
         IN IF config_path \in DOMAIN L.cache
              THEN LoaderReturn(L, Result(L.cache[config_path].address), Some(config_path))
              ELSE LoaderReturn([L EXCEPT !.crashed = TRUE], NoResult, None)
  ELSE find_and_load_config_file_in_directory_and_ancestors(
         L, ParentDirectory(input_path), Some(input_path))

find_and_load_config_file_for_current_directory(L) ==
  LET canonical_cwd == CanonicalizePath(<<>>)  \* the process runs in the project root
  IN find_and_load_config_file_in_directory_and_ancestors(
       L,
       IF HaveMissingComponents(canonical_cwd)
         THEN DropMissingComponents(canonical_cwd) ELSE canonical_cwd.path,
       None)

load_config_file(L, config_path) ==
  LET canonical_config_path == CanonicalizePath(config_path).path
      config_json == ReadPath(canonical_config_path)
  IN IF get_loaded_config(L.cache, canonical_config_path)
       THEN LoaderReturn(L, Result(L.cache[canonical_config_path].address),
                         Some(canonical_config_path))
     ELSE IF ~config_json.ok THEN LoaderReturn(L, Error(canonical_config_path), None)
     ELSE LoaderReturn(
            [L EXCEPT !.cache = LoadNew(@, canonical_config_path, L.next_address,
                                        config_json.content),
                      !.next_address = @ + 1],
            Result(L.next_address), Some(canonical_config_path))

\* Faulty variant: the configuration reloaded, the node's file_content left
\* as it was.
ReloadKeepingBytes(cache, config_path, address, file_content) ==
  [Emplace(cache, config_path, address) EXCEPT
     ![config_path].config =
        load_from_json(set_config_file_path(reset(@), config_path), file_content)]

\* file_content = ...; config.reset(); set_config_file_path; load_from_json
\* on the node of config_path, made by operator[] if there is none.
Reload(cache, config_path, address, file_content) ==
  [Emplace(cache, config_path, address) EXCEPT
     ![config_path].file_content = file_content,
     ![config_path].config =
        load_from_json(set_config_file_path(reset(@), config_path), file_content)]

\* did_change of configuration_loader::refresh for a config that is loaded.
LoaderDidChange(latest, already_loaded) ==
  latest.file_content # already_loaded.file_content

\* configuration_loader::refresh: for (input_path : watched_paths_), from
\* path i on.  R is [cache, next_address, input_map, crashed, changes].
RECURSIVE configuration_loader_refresh(_, _, _)
configuration_loader_refresh(R, watched_paths, i) ==
  IF i > Len(watched_paths) THEN R
  ELSE
    LET input_path == watched_paths[i]
        latest == find_config_file_in_directory_and_ancestors(
                    R.cache, ParentDirectory(input_path), FALSE)
    IN
    IF latest.path # None
      THEN LET config_path == latest.path[1]
           IN IF get_loaded_config(R.cache, config_path)
                THEN IF LoaderDidChange(latest, R.cache[config_path])
                       THEN configuration_loader_refresh(
                              [R EXCEPT
                                 !.cache = Reload(@, config_path, R.next_address,
                                                  latest.file_content),
                                 !.changes = Append(@, ConfigurationChange(
                                                i, input_path, R.cache[config_path].address,
                                                latest.path))],
                              watched_paths, i + 1)
                       ELSE configuration_loader_refresh(R, watched_paths, i + 1)
              ELSE configuration_loader_refresh(
                     [R EXCEPT
                        !.cache = Reload(@, config_path, R.next_address,
                                         latest.file_content),
                        !.next_address = @ + 1,
                        !.changes = Append(@, ConfigurationChange(
                                       i, input_path, R.next_address, latest.path))],
                     watched_paths, i + 1)
    ELSE IF input_path \in DOMAIN R.input_map
      THEN configuration_loader_refresh(
             [R EXCEPT !.changes = Append(@, ConfigurationChange(
                                      i, input_path, DefaultAddress, None))],
             watched_paths, i + 1)
    ELSE configuration_loader_refresh(R, watched_paths, i + 1)

(***************************************************************************)
(* Initial state: a project directory with any of the config files in it,  *)
(* and a program that has not been asked anything yet.                     *)
(***************************************************************************)
\* The projects with no config file or a single one.
SingleConfig(dirs) ==
  LET present == {dirs[p] : p \in DirPaths} \ {0}
      empty == [i \in Inodes |-> [n \in ConfigNameSet |-> "none"]]
  IN {empty} \cup {[empty EXCEPT ![x[1]][x[2]] = "{}"] : x \in present \X ConfigNameSet}

\* The state after construction.  The project root exists (inode 1), the
\* project directory "dir" exists (inode 2) or not, "newdir" does not; each
\* existing directory holds any of the config files, with content "{}".
Init ==
  /\ program \in {"detector", "loader"}
  /\ backend \in {"inotify", "kqueue", "win32"}
  /\ crashed = FALSE
  /\ fs_dirs \in {[p \in DirPaths |-> IF p = <<>> THEN 1
                                      ELSE IF p = <<"dir">> THEN d ELSE 0] : d \in {0, 2}}
  /\ fs_cfg \in {c \in [Inodes -> [ConfigNameSet -> {"none", "{}"}]] :
                   \A i \in Inodes \ ({fs_dirs[p] : p \in DirPaths} \ {0}) :
                      \A n \in ConfigNameSet : c[i][n] = "none"}
  /\ fs_js \in SUBSET ({fs_dirs[p] : p \in DirPaths} \ {0})
  /\ next_inode = 3
  /\ mutations = 0
  /\ budget \in {MaxMutations, MaxBatch}
  /\ inotify_watches = [i \in Inodes |-> 0]
  /\ inotify_queue = 0
  /\ watch_descriptors_ = <<>>
  /\ kqueue_watched_ = {}
  /\ kqueue_triggered = FALSE
  /\ kqueue_watched_directories_ = 0
  /\ win32_watched_directories_ = <<>>
  /\ io_completion_port_ = <<>>
  /\ change_event_ = FALSE
  /\ watches_ = <<>>
  /\ io_thread_ = None
  /\ watched_directories_mutex_ = "unlocked"
  /\ in_destructor = "no"
  /\ in_process_changes = None
  /\ in_get_config_file = None
  /\ fs_calls = <<>>
  /\ loaded_config_files_ = <<>>
  /\ next_address = 1
  /\ watched_paths_ = <<>>
  /\ input_path_config_files_ = <<>>
  /\ timed_out = FALSE
  /\ changes = <<>>
  /\ returned = NoResult
  /\ handed_out = {}
  /\ host_view = <<>>
  /\ last_read = <<>>
  /\ pre_view = <<>>
  /\ pre_read = <<>>
  /\ loads = 0
  /\ given_paths = <<>>
  /\ last_op = "init"
  /\ quiet = FALSE
  /\ was_stale = FALSE
  /\ stale = FALSE

(***************************************************************************)
(* Filesystem mutations by other processes.  A mutation is described by    *)
(* the inotify events <<directory identity, event>> it raises, by the      *)
(* config file vnode it writes, unlinks or renames (None: a new file or a  *)
(* directory) and by whether that vnode keeps its name.                    *)
(***************************************************************************)
\* Successive identical events of one mutation are coalesced by the kernel.
Queued(events) ==
  LET \* the mask given to inotify_add_watch
      WatchMask == {"IN_ATTRIB", "IN_CLOSE_WRITE", "IN_CREATE", "IN_DELETE",
                    "IN_DELETE_SELF", "IN_MODIFY", "IN_MOVE_SELF",
                    "IN_MOVED_FROM", "IN_MOVED_TO"}
  IN Cardinality({e[1] : e \in {f \in events : inotify_watches[f[1]] # 0
                                                /\ f[2] \in WatchMask}})

\* The vnodes on which the mutation raises one of the notes of the
\* EVFILT_VNODE registrations: a directory whose entries change or that is
\* renamed, and the file.
VnodeNotes(events, vnode) ==
  {DirVnode(e[1]) : e \in {f \in events : f[2] \notin {"IN_MODIFY", "IN_CLOSE_WRITE"}}}
    \cup (IF vnode = None THEN {} ELSE {FileVnode(vnode[1][1], vnode[1][2])})

DirPathOrder == <<<<>>, <<"dir">>, <<"newdir">>>>

\* The watched directories whose oplock the mutation breaks: a file in the
\* directory is created, modified or deleted, or the directory is renamed.
OplocksBroken(events) ==
  {p \in DOMAIN win32_watched_directories_ :
     /\ win32_watched_directories_[p].oplock = "held"
     /\ win32_watched_directories_[p].directory_id \in {e[1] : e \in events}}

BreakCompletions(broken) ==
  [j \in 1..Len(SelectSeq(DirPathOrder, LAMBDA p : p \in broken)) |->
     Completion(SelectSeq(DirPathOrder, LAMBDA p : p \in broken)[j], FALSE)]

Mutate(events, vnode, kept) ==
  /\ mutations < budget
  /\ mutations' = mutations + 1
  /\ inotify_queue' = inotify_queue + Queued(events)
  /\ kqueue_triggered' = (kqueue_triggered
                          \/ VnodeNotes(events, vnode) \cap kqueue_watched_ # {})
  /\ kqueue_watched_' = IF vnode = None \/ kept THEN kqueue_watched_
                        ELSE kqueue_watched_ \ {FileVnode(vnode[1][1], vnode[1][2])}
  /\ win32_watched_directories_' =
       [p \in DOMAIN win32_watched_directories_ |->
          IF p \in OplocksBroken(events)
            THEN [win32_watched_directories_[p] EXCEPT !.oplock = "broken"]
            ELSE win32_watched_directories_[p]]
  /\ io_completion_port_' = io_completion_port_ \o BreakCompletions(OplocksBroken(events))
  /\ last_op' = "mutate"
  /\ quiet' = FALSE
  /\ was_stale' = FALSE
  /\ stale' = (stale \/ Registered > 0)
  /\ timed_out' = FALSE
  /\ changes' = <<>>
  /\ returned' = NoResult
  /\ pre_view' = <<>>
  /\ pre_read' = <<>>
  /\ fs_calls' = <<>>
  /\ UNCHANGED <<program, backend, watched_directories_mutex_, in_destructor,
                 in_process_changes, io_thread_, in_get_config_file, crashed, budget, inotify_watches, watch_descriptors_,
                 kqueue_watched_directories_,
                 change_event_,
                 watches_, loaded_config_files_, next_address,
                 watched_paths_, input_path_config_files_,
                 handed_out, host_view, last_read, loads, given_paths>>

\* write_file(directory/name, content): creates or rewrites a regular file.
WriteFile(directory, name, content) ==
  /\ DirExists(directory)
  /\ fs_cfg[fs_dirs[directory]][name] # "directory"
  /\ fs_cfg' = [fs_cfg EXCEPT ![fs_dirs[directory]][name] = content]
  /\ Mutate({<<fs_dirs[directory], "IN_MODIFY">>, <<fs_dirs[directory], "IN_CLOSE_WRITE">>}
            \cup IF fs_cfg[fs_dirs[directory]][name] = "none"
                   THEN {<<fs_dirs[directory], "IN_CREATE">>} ELSE {},
            IF fs_cfg[fs_dirs[directory]][name] = "none" THEN None
            ELSE Some(<<fs_dirs[directory], name>>),
            TRUE)
  /\ UNCHANGED <<fs_dirs, fs_js, next_inode>>

\* std::remove(directory/name), of a file or of an empty directory.
RemoveFile(directory, name) ==
  /\ DirExists(directory)
  /\ fs_cfg[fs_dirs[directory]][name] # "none"
  /\ fs_cfg' = [fs_cfg EXCEPT ![fs_dirs[directory]][name] = "none"]
  /\ Mutate({<<fs_dirs[directory], "IN_DELETE">>},
            Some(<<fs_dirs[directory], name>>), FALSE)
  /\ UNCHANGED <<fs_dirs, fs_js, next_inode>>

\* move_file(directory/name, directory/moved.config)
MoveFileAway(directory, name) ==
  /\ DirExists(directory)
  /\ fs_cfg[fs_dirs[directory]][name] \in Contents
  /\ fs_cfg' = [fs_cfg EXCEPT ![fs_dirs[directory]][name] = "none"]
  /\ Mutate({<<fs_dirs[directory], "IN_MOVED_FROM">>, <<fs_dirs[directory], "IN_MOVED_TO">>},
            Some(<<fs_dirs[directory], name>>), FALSE)
  /\ UNCHANGED <<fs_dirs, fs_js, next_inode>>

\* move_file(directory/temp.config, directory/name): atomically puts a file
\* with the given bytes at the name, replacing a file that is there.
MoveFileInto(directory, name, content) ==
  /\ DirExists(directory)
  /\ fs_cfg[fs_dirs[directory]][name] # "directory"
  /\ fs_cfg' = [fs_cfg EXCEPT ![fs_dirs[directory]][name] = content]
  /\ Mutate({<<fs_dirs[directory], "IN_MOVED_FROM">>, <<fs_dirs[directory], "IN_MOVED_TO">>},
            Some(<<fs_dirs[directory], name>>), FALSE)
  /\ UNCHANGED <<fs_dirs, fs_js, next_inode>>

\* create_directory(path), for a project directory or (name given) for a
\* directory that has the name of a config file.
CreateDirectory(path) ==
  /\ path \in DirPaths \ {<<>>}
  /\ fs_dirs[path] = 0
  /\ DirExists(Parent(path))
  /\ fs_dirs' = [fs_dirs EXCEPT ![path] = next_inode]
  /\ next_inode' = next_inode + 1
  /\ Mutate({<<fs_dirs[Parent(path)], "IN_CREATE">>}, None, TRUE)
  /\ UNCHANGED <<fs_cfg, fs_js>>

CreateConfigDirectory(directory, name) ==
  /\ DirExists(directory)
  /\ fs_cfg[fs_dirs[directory]][name] = "none"
  /\ fs_cfg' = [fs_cfg EXCEPT ![fs_dirs[directory]][name] = "directory"]
  /\ Mutate({<<fs_dirs[directory], "IN_CREATE">>}, None, TRUE)
  /\ UNCHANGED <<fs_dirs, fs_js, next_inode>>

\* move_file(from, to) of a project directory with everything in it.
MoveDirectory(from, to) ==
  /\ from \in DirPaths \ {<<>>}
  /\ to \in DirPaths \ {<<>>}
  /\ Parent(from) = Parent(to)
  /\ fs_dirs[from] # 0
  /\ fs_dirs[to] = 0
  /\ fs_dirs' = [fs_dirs EXCEPT ![to] = fs_dirs[from], ![from] = 0]
  /\ Mutate({<<fs_dirs[Parent(from)], "IN_MOVED_FROM">>,
             <<fs_dirs[Parent(from)], "IN_MOVED_TO">>,
             <<fs_dirs[from], "IN_MOVE_SELF">>}, None, TRUE)
  /\ UNCHANGED <<fs_cfg, fs_js, next_inode>>

\* delete_directory_recursive(path) by another process: the files of the
\* directory are unlinked and the directory is removed; the kernel queues
\* IN_DELETE_SELF for a watch of the directory and drops that watch.
RemoveDirectory(path) ==
  /\ path \in DirPaths \ {<<>>}
  /\ fs_dirs[path] # 0
  /\ fs_dirs' = [fs_dirs EXCEPT ![path] = 0]
  /\ fs_cfg' = [fs_cfg EXCEPT ![fs_dirs[path]] = [name \in DOMAIN @ |-> "none"]]
  /\ fs_js' = fs_js \ {fs_dirs[path]}
  /\ Mutate({<<fs_dirs[path], "IN_DELETE">>, <<fs_dirs[path], "IN_DELETE_SELF">>,
             <<fs_dirs[Parent(path)], "IN_DELETE">>}, None, TRUE)
  /\ UNCHANGED next_inode

(***************************************************************************)
(* Host calls on configuration_change_detector_impl.                       *)
(***************************************************************************)
DetectorState ==
  [watches |-> watches_, cache |-> loaded_config_files_,
   next_address |-> next_address,
   notify |-> [watches |-> inotify_watches, descriptors |-> watch_descriptors_,
               kqueue |-> kqueue_watched_, fds |-> kqueue_watched_directories_,
               win32 |-> win32_watched_directories_,
               iocp |-> io_completion_port_, event |-> change_event_,
               failed |-> FALSE, calls |-> <<>>],
   crashed |-> FALSE]

SetDetectorState(S) ==
  /\ watches_' = S.watches
  /\ loaded_config_files_' = S.cache
  /\ next_address' = S.next_address
  /\ inotify_watches' = S.notify.watches
  /\ watch_descriptors_' = S.notify.descriptors
  /\ kqueue_watched_' = S.notify.kqueue
  /\ kqueue_watched_directories_' = S.notify.fds
  /\ win32_watched_directories_' = S.notify.win32
  /\ io_completion_port_' = S.notify.iocp
  /\ change_event_' = S.notify.event
  /\ fs_calls' = S.notify.calls
  /\ crashed' = S.crashed

\* get_config_for_file(path) once canonicalize_path has given
\* parent_directory.
GetConfigForFile(path, parent_directory) ==
  /\ program = "detector"
  /\ ~crashed
  /\ loads < MaxLoads
  /\ loads' = loads + 1
  /\ given_paths' = Append(given_paths, path)
  /\ \E g \in {get_config_file_walk(
                   [DetectorState EXCEPT
                      !.watches = Append(@, [watched_file_path |-> path,
                                             config_file_path |-> None])],
                   Len(watches_) + 1, parent_directory)} :
     LET pointer == ConfigPointer(g.cache, g.config_file)
     IN /\ SetDetectorState(g)
        /\ returned' = IF g.crashed THEN NoResult
                       ELSE HostReturn(Result(pointer), Some(path), g.config_file)
        /\ handed_out' = IF g.crashed THEN handed_out
                         ELSE handed_out \cup {<<g.config_file, pointer>>}
        /\ host_view' = Append(host_view, View(g.cache, pointer))
        /\ last_op' = IF g.crashed THEN "crash" ELSE "load"
  /\ last_read' = ReadGoverning({path})
  /\ pre_view' = <<>>
  /\ pre_read' = <<>>
  /\ quiet' = FALSE
  /\ was_stale' = FALSE
  /\ timed_out' = FALSE
  /\ changes' = <<>>
  /\ UNCHANGED <<program, backend, watched_directories_mutex_, in_destructor,
                 in_process_changes, io_thread_, fs_vars, inotify_queue, kqueue_triggered,
                 loader_vars, stale>>

\* configuration* get_config_for_file(const std::string& path)
get_config_for_file(path) ==
  /\ in_get_config_file = None
  /\ GetConfigForFile(path, ParentDirectory(path))
  /\ UNCHANGED in_get_config_file

\* The same call in two steps, for the environment to act in between: up to
\* the return of canonicalize_path ...
get_config_for_file_canonicalize(path) ==
  /\ program = "detector"
  /\ ~crashed
  /\ loads < MaxLoads
  /\ in_get_config_file = None
  /\ in_get_config_file' = Some([path |-> path,
                                  parent_directory |-> ParentDirectory(path)])
  /\ UNCHANGED <<program, backend, watched_directories_mutex_, in_destructor,
                 in_process_changes, io_thread_, fs_calls, crashed, fs_vars, inotify_vars, kqueue_vars,
                 win32_vars, detector_vars, loaded_config_files_, next_address,
                 loader_vars, timed_out, changes, returned, handed_out, host_view,
                 last_read, pre_view, pre_read, loads, given_paths, last_op, quiet,
                 was_stale, stale>>

\* ... and from there to its end.
get_config_for_file_resume ==
  /\ in_get_config_file # None
  /\ GetConfigForFile(in_get_config_file[1].path, in_get_config_file[1].parent_directory)
  /\ in_get_config_file' = None

\* poll() finds the inotify descriptor readable, kevent returns an event
\* (the vnode filters are registered without EV_CLEAR and stay triggered),
\* WaitForSingleObject finds the change event set.  What the I/O thread does
\* while the host waits are run_io_thread steps before this one.
Signalled ==
  IF backend = "inotify" THEN inotify_queue # 0
  ELSE IF backend = "kqueue" THEN kqueue_triggered
  ELSE change_event_

\* A wait that leaves the change event as it found it.
WaitedWithoutReset == DetectorState.notify

\* The change event is an auto-reset event: a satisfied wait resets it.
Waited == [DetectorState.notify EXCEPT !.event = FALSE]

\* detector.refresh(out_changes) of process_changes: the host's call of
\* configuration_change_detector_impl::refresh and what the host does with
\* the change list.
detector_refresh ==
  /\ program = "detector"
  /\ ~crashed
  /\ quiet' = (last_op # "mutate")
  /\ was_stale' = stale
  /\ returned' = NoResult
  /\ \E R \in {refresh([watches |-> DetectorState.watches,
                        cache |-> DetectorState.cache,
                        next_address |-> DetectorState.next_address,
                        notify |-> Waited,
                        crashed |-> FALSE,
                        out_changes |-> <<>>], 1)} :
        /\ SetDetectorState(R)
        /\ changes' = IF R.crashed THEN <<>> ELSE R.out_changes
        /\ handed_out' = IF R.crashed THEN handed_out
                         ELSE handed_out \cup
                              {<<R.out_changes[k].config_file, R.out_changes[k].config>> :
                                 k \in 1..Len(R.out_changes)}
        /\ host_view' = IF R.crashed THEN host_view
                        ELSE ApplyChanges(host_view, R.cache, R.out_changes, 1)
        /\ last_op' = IF R.crashed THEN "crash" ELSE "refresh"
  /\ last_read' = ReadGoverning({watches_[i].watched_file_path : i \in 1..Len(watches_)})
  /\ pre_view' = host_view
  /\ pre_read' = last_read
  /\ stale' = FALSE
  /\ UNCHANGED <<program, backend, watched_directories_mutex_, in_destructor,
                 io_thread_, in_get_config_file, fs_vars, kqueue_triggered, loader_vars, loads,
                 given_paths>>

\* poll_and_process_changes of the tests: wait for the backend's signal
\* without blocking, then process_changes as one step.
poll_and_process_changes ==
  /\ timed_out' = ~Signalled
  /\ inotify_queue' = read_inotify(inotify_queue)
  /\ detector_refresh
  /\ UNCHANGED in_process_changes

\* A process_changes that refreshes before it reads the queue.
StepsRefreshFirst == <<"refresh", "read_inotify">>

\* configuration_filesystem_inotify::process_changes, statement by
\* statement.
process_changes_steps == <<"read_inotify", "refresh">>

\* One statement of the host's poll_and_process_changes in the build for
\* Linux; other processes run between the two.  The host's poll comes
\* before the first.
process_changes_step ==
  /\ program = "detector"
  /\ backend = "inotify"
  /\ ~crashed
  /\ \E done \in {IF in_process_changes = None THEN 0 ELSE in_process_changes[1]} :
       /\ in_process_changes' = IF done + 1 = Len(process_changes_steps) THEN None
                                ELSE Some(done + 1)
       /\ timed_out' = IF done = 0 THEN ~Signalled ELSE timed_out
       /\ IF process_changes_steps[done + 1] = "read_inotify"
            THEN /\ inotify_queue' = read_inotify(inotify_queue)
                 /\ UNCHANGED <<program, backend, watched_directories_mutex_,
                            in_destructor, in_get_config_file, fs_calls, io_thread_,
                            crashed, fs_dirs, fs_cfg, fs_js, next_inode, mutations,
                            budget, inotify_watches, watch_descriptors_,
                            kqueue_watched_, kqueue_triggered,
                            kqueue_watched_directories_, win32_watched_directories_,
                            io_completion_port_, change_event_, watches_,
                            loaded_config_files_, next_address, watched_paths_,
                            input_path_config_files_, changes, returned, handed_out,
                            host_view, last_read, pre_view, pre_read, loads,
                            given_paths, last_op, quiet, was_stale, stale>>
            ELSE /\ detector_refresh
                 /\ UNCHANGED inotify_queue

\* inotify_rm_watch(inotify_fd_, watch_descriptor): 0, or -1 (EINVAL) for a
\* descriptor that names no watch of the instance.  The kernel holds a
\* watch for as long as its directory exists.
inotify_rm_watch(watch_descriptor) ==
  IF \E path \in DirPaths :
       fs_dirs[path] # 0 /\ inotify_watches[fs_dirs[path]] = watch_descriptor
    THEN 0 ELSE -1

\* ~configuration_filesystem_inotify: inotify_rm_watch for every recorded
\* descriptor with QLJS_ASSERT(rc == 0), then the descriptor of the
\* instance is given up.
inotify_destructor ==
  /\ program = "detector"
  /\ backend = "inotify"
  /\ ~crashed
  /\ in_destructor = "no"
  /\ in_process_changes = None
  /\ crashed' = \E k \in 1..Len(watch_descriptors_) :
                   inotify_rm_watch(watch_descriptors_[k]) # 0
  /\ in_destructor' = IF crashed' THEN "no" ELSE "destroyed"
  /\ inotify_watches' = [i \in Inodes |-> 0]
  /\ UNCHANGED <<program, backend, watched_directories_mutex_,
                 in_process_changes, in_get_config_file, fs_calls,
                 io_thread_, fs_dirs, fs_cfg, fs_js, next_inode,
                 mutations, budget, inotify_queue, watch_descriptors_,
                 kqueue_watched_, kqueue_triggered,
                 kqueue_watched_directories_, win32_watched_directories_,
                 io_completion_port_, change_event_, watches_,
                 loaded_config_files_, next_address, watched_paths_,
                 input_path_config_files_, timed_out, changes, returned,
                 handed_out, host_view, last_read, pre_view, pre_read,
                 loads, given_paths, last_op, quiet, was_stale, stale>>

\* One iteration of run_io_thread: GetQueuedCompletionStatus and
\* handle_directory_event for the oldest completion.
run_io_thread ==
  /\ program = "detector"
  /\ backend = "win32"
  /\ ~crashed
  /\ io_completion_port_ # <<>>
  /\ \E N \in {handle_directory_event(
                  [DetectorState.notify EXCEPT !.iocp = Tail(@)],
                  Head(io_completion_port_))} :
       /\ win32_watched_directories_' = N.win32
       /\ io_completion_port_' = N.iocp
       /\ change_event_' = N.event
       /\ crashed' = N.failed
  /\ UNCHANGED <<program, backend, watched_directories_mutex_, in_destructor,
                 in_process_changes, io_thread_, in_get_config_file, fs_calls, fs_vars, inotify_vars, kqueue_vars,
                 detector_vars, loaded_config_files_, next_address, loader_vars,
                 timed_out, changes, returned, handed_out, host_view,
                 last_read, pre_view, pre_read, loads, given_paths, last_op, quiet,
                 was_stale, stale>>

\* Faulty variant: the mutex taken without regard to who holds it.
LockWithoutWaiting(thread) == watched_directories_mutex_' = thread

\* std::unique_lock lock(watched_directories_mutex_) by the given thread.
lock(thread) ==
  /\ watched_directories_mutex_ = "unlocked"
  /\ watched_directories_mutex_' = thread

\* run_io_thread step by step.  GetQueuedCompletionStatus returns the oldest
\* completion; for a directory, handle_directory_event then locks
\* watched_directories_mutex_, and until it has the mutex the host sees what
\* it sees while the completion is queued.  After stop_io_thread the thread
\* has returned and dequeues nothing more.
run_io_thread_dequeue ==
  /\ program = "detector"
  /\ backend = "win32"
  /\ ~crashed
  /\ io_thread_ = None
  /\ io_completion_port_ # <<>>
  /\ IF Head(io_completion_port_).key = "directory"
       THEN lock("io_thread")
       ELSE UNCHANGED watched_directories_mutex_
  /\ io_thread_' = Some([completion |-> Head(io_completion_port_), done |-> 0])
  /\ io_completion_port_' = Tail(io_completion_port_)
  /\ UNCHANGED <<program, backend, in_destructor, in_process_changes,
                 in_get_config_file, fs_calls, crashed, fs_vars,
                 inotify_vars, kqueue_vars, win32_watched_directories_, change_event_,
                 detector_vars, loaded_config_files_, next_address, loader_vars,
                 timed_out, changes, returned, handed_out, host_view,
                 last_read, pre_view, pre_read, loads, given_paths, last_op, quiet,
                 was_stale, stale>>

\* The next step of handle_directory_event; after the last one the mutex is
\* released and the thread is back in GetQueuedCompletionStatus.
handle_directory_event_step ==
  /\ io_thread_ # None
  /\ io_thread_[1].completion.key = "directory"
  /\ ~crashed
  /\ \E step \in {HandlerSteps[io_thread_[1].done + 1]} :
       /\ \E N \in {HandlerStep(DetectorState.notify, io_thread_[1].completion, step)} :
            /\ win32_watched_directories_' = N.win32
            /\ change_event_' = N.event
            /\ crashed' = N.failed
       /\ watched_directories_mutex_' =
            IF step = "unlock" THEN "unlocked" ELSE watched_directories_mutex_
       /\ in_destructor' =
            IF step = "notify_all" /\ in_destructor = "waiting" THEN "notified"
            ELSE in_destructor
  /\ io_thread_' = IF io_thread_[1].done + 1 = Len(HandlerSteps) THEN None
                   ELSE Some([io_thread_[1] EXCEPT !.done = @ + 1])
  /\ UNCHANGED <<program, backend, in_process_changes,
                 in_get_config_file, fs_calls, fs_vars,
                 inotify_vars, kqueue_vars, io_completion_port_,
                 detector_vars, loaded_config_files_, next_address, loader_vars,
                 timed_out, changes, returned, handed_out, host_view,
                 last_read, pre_view, pre_read, loads, given_paths, last_op, quiet,
                 was_stale, stale>>

\* Faulty variant: the destructor does not wait for the entries to go.
AllWatchesCancelledAtOnce == TRUE

\* The predicate of wait_until_all_watches_cancelled.
AllWatchesCancelled == DOMAIN win32_watched_directories_ = {}

\* ~configuration_filesystem_win32, one step at a time: the lock and the
\* begin_cancel loop over watched_directories_, in the order the map
\* iterates; wait_until_all_watches_cancelled, which tests the map with the
\* mutex held, sleeps with the mutex released and tests again once
\* notify_all has woken it; PostQueuedCompletionStatus; join.
win32_destructor ==
  /\ program = "detector"
  /\ backend = "win32"
  /\ ~crashed
  /\ in_get_config_file = None
  /\ \/ /\ in_destructor = "no"
        /\ lock("host")
        /\ \E order \in {o \in [1..Cardinality(DOMAIN win32_watched_directories_)
                                  -> DOMAIN win32_watched_directories_] :
                            \A a, b \in DOMAIN o : o[a] = o[b] => a = b} :
             LET RECURSIVE CancelFrom(_, _)
                 CancelFrom(N, k) ==
                   IF k > Len(order) THEN N
                   ELSE CancelFrom(begin_cancel(N, order[k]), k + 1)
             IN \E N \in {CancelFrom(DetectorState.notify, 1)} :
                  /\ win32_watched_directories_' = N.win32
                  /\ io_completion_port_' = N.iocp
        /\ in_destructor' = "cancelled"
     \/ /\ in_destructor = "cancelled"
        /\ watched_directories_mutex_' = "unlocked"
        /\ in_destructor' = IF AllWatchesCancelled THEN "unlocked" ELSE "waiting"
        /\ UNCHANGED <<win32_watched_directories_, io_completion_port_>>
     \/ /\ in_destructor = "notified"
        /\ watched_directories_mutex_ = "unlocked"
        /\ in_destructor' = IF AllWatchesCancelled THEN "unlocked" ELSE "waiting"
        /\ UNCHANGED <<win32_watched_directories_, io_completion_port_,
                       watched_directories_mutex_>>
     \/ /\ in_destructor = "unlocked"
        /\ io_completion_port_' = Append(io_completion_port_, StopIoThread)
        /\ in_destructor' = "joining"
        /\ UNCHANGED <<win32_watched_directories_, watched_directories_mutex_>>
     \/ /\ in_destructor = "joining"
        /\ io_thread_ = Some([completion |-> StopIoThread, done |-> 0])
        /\ in_destructor' = "destroyed"
        /\ UNCHANGED <<win32_watched_directories_, io_completion_port_,
                       watched_directories_mutex_>>
  /\ UNCHANGED <<program, backend, in_process_changes, io_thread_,
                 in_get_config_file, fs_calls, crashed, fs_vars,
                 inotify_vars, kqueue_vars, change_event_,
                 detector_vars, loaded_config_files_, next_address, loader_vars,
                 timed_out, changes, returned, handed_out, host_view,
                 last_read, pre_view, pre_read, loads, given_paths, last_op, quiet,
                 was_stale, stale>>

(***************************************************************************)
(* Host calls on configuration_loader.                                     *)
(***************************************************************************)
LoaderState ==
  [cache |-> loaded_config_files_, next_address |-> next_address,
   input_map |-> input_path_config_files_, crashed |-> FALSE]

SetLoaderState(L) ==
  /\ loaded_config_files_' = L.cache
  /\ next_address' = L.next_address
  /\ input_path_config_files_' = L.input_map
  /\ crashed' = L.crashed

\* What every load_for_file call leaves behind for the host.  The call has
\* read the config files it has put into the cache.
Loaded(r, input) ==
  /\ SetLoaderState(r)
  /\ returned' = IF r.crashed THEN NoResult
                 ELSE HostReturn(r.result, input, r.config_file)
  /\ last_read' = [c \in DOMAIN last_read \cup (DOMAIN r.cache \ DOMAIN loaded_config_files_) |->
                     IF c \in DOMAIN loaded_config_files_ \/ c \notin DOMAIN r.cache
                       THEN last_read[c] ELSE ReadPath(c).content]
  /\ pre_view' = <<>>
  /\ pre_read' = <<>>
  /\ handed_out' = IF r.crashed \/ ~r.result.ok THEN handed_out
                   ELSE handed_out \cup {<<r.config_file, r.result.config>>}
  /\ last_op' = IF r.crashed THEN "crash" ELSE "load"
  /\ loads' = loads + 1
  /\ quiet' = FALSE
  /\ was_stale' = FALSE
  /\ timed_out' = FALSE
  /\ changes' = <<>>
  /\ UNCHANGED <<program, backend, watched_directories_mutex_, in_destructor,
                 in_process_changes, io_thread_, in_get_config_file, fs_calls, fs_vars, inotify_vars, kqueue_vars, win32_vars,
                 detector_vars, stale>>

\* configuration_or_error load_for_file(const std::string& file_path)
load_for_file(file_path) ==
  /\ program = "loader"
  /\ ~crashed
  /\ loads < MaxLoads
  /\ watched_paths_' = Append(watched_paths_, file_path)
  /\ given_paths' = Append(given_paths, file_path)
  /\ \E r \in {find_and_load_config_file_for_input(LoaderState, file_path)} :
       /\ Loaded(r, Some(file_path))
       /\ host_view' = Append(host_view,
                              IF r.result.ok THEN View(r.cache, r.result.config)
                              ELSE ErrorView)

\* file_to_lint values the host passes: standard input, a path, and a path
\* with --config-file.
FilesToLint ==
  {[path |-> None, config_file |-> None],
   [path |-> Some(<<"dir", JsName>>), config_file |-> None],
   [path |-> Some(<<"dir", JsName>>), config_file |-> Some(<<ConfigFileNames[1]>>)]}

\* configuration_or_error load_for_file(const file_to_lint& file)
load_for_file_to_lint(file) ==
  /\ program = "loader"
  /\ ~crashed
  /\ loads < MaxLoads
  /\ \E r \in {IF file.config_file # None
                 THEN load_config_file(LoaderState, file.config_file[1])
               ELSE IF file.path # None
                 THEN find_and_load_config_file_for_input(LoaderState, file.path[1])
               ELSE find_and_load_config_file_for_current_directory(LoaderState)} :
       Loaded(r, IF file.config_file # None THEN None ELSE file.path)
  /\ UNCHANGED <<watched_paths_, host_view, given_paths>>

\* std::vector<configuration_change> refresh()
loader_refresh ==
  /\ program = "loader"
  /\ ~crashed
  /\ \E R \in {configuration_loader_refresh(
                 [cache |-> loaded_config_files_, next_address |-> next_address,
                  input_map |-> input_path_config_files_, crashed |-> FALSE,
                  changes |-> <<>>],
                 watched_paths_, 1)} :
       /\ SetLoaderState(R)
       /\ changes' = R.changes
       /\ handed_out' = handed_out \cup
                          {<<R.changes[k].config_file, R.changes[k].config>> :
                             k \in 1..Len(R.changes)}
       /\ host_view' = ApplyChanges(host_view, R.cache, R.changes, 1)
  /\ last_read' = ReadGoverning({watched_paths_[i] : i \in 1..Len(watched_paths_)})
  /\ pre_view' = host_view
  /\ pre_read' = last_read
  /\ last_op' = "refresh"
  /\ quiet' = (last_op # "mutate")
  /\ was_stale' = stale
  /\ stale' = FALSE
  /\ timed_out' = FALSE
  /\ returned' = NoResult
  /\ UNCHANGED <<program, backend, watched_directories_mutex_, in_destructor,
                 in_process_changes, io_thread_, in_get_config_file, fs_calls, fs_vars, inotify_vars, kqueue_vars, win32_vars,
                 detector_vars, watched_paths_, loads, given_paths>>

\* Other processes work in the directories of the registered sources; a
\* directory moved away keeps its content and can be moved back.
FilesystemMutation ==
  \/ \E d \in SourceDirs, n \in ConfigNameSet, c \in Contents : WriteFile(d, n, c)
  \/ \E d \in SourceDirs, n \in ConfigNameSet : RemoveFile(d, n)
  \/ \E d \in SourceDirs : MoveFileAway(d, ConfigFileNames[1])
  \/ \E d \in SourceDirs, c \in Contents : MoveFileInto(d, ConfigFileNames[1], c)
  \/ \E p \in SourceDirs : CreateDirectory(p)
  \/ \E d \in SourceDirs : CreateConfigDirectory(d, ConfigFileNames[1])
  \/ \E p \in DirPaths, q \in DirPaths : MoveDirectory(p, q)

Detector ==
  \/ \E path \in SourcePaths : get_config_for_file(path)
  \/ poll_and_process_changes

Loader ==
  \/ \E file_path \in SourcePaths : load_for_file(file_path)
  \/ \E file \in FilesToLint : load_for_file_to_lint(file)
  \/ loader_refresh

Next ==
  \/ FilesystemMutation
  \/ Detector
  \/ Loader

\* Every source file exists wherever its directory does.
SourcesExist == fs_js = {fs_dirs[p] : p \in DirPaths} \ {0}

\* The build for Linux.
InitLinux == Init /\ backend = "inotify" /\ budget = MaxMutations /\ SourcesExist

\* Either program, started in a project with at most one config file; the
\* others arrive by mutation.
InitSingle == InitLinux /\ fs_cfg \in SingleConfig(fs_dirs)

Spec == InitSingle /\ [][Next]_vars

\* One program at a time.
NextDetector ==
  \/ FilesystemMutation
  \/ Detector

InitDetector == InitLinux /\ program = "detector"

SpecDetector == InitDetector /\ [][NextDetector]_vars

\* configuration_change_detector_impl in each of the three builds; the
\* Windows build runs the I/O thread next to the host.
NextBackends ==
  \/ FilesystemMutation
  \/ Detector
  \/ run_io_thread

InitBackends == Init /\ program = "detector" /\ budget = MaxMutations /\ SourcesExist

SpecBackends == InitBackends /\ [][NextBackends]_vars

NextLoader ==
  \/ FilesystemMutation
  \/ Loader

InitLoader == InitLinux /\ program = "loader"

SpecLoader == InitLoader /\ [][NextLoader]_vars

\* A host that registers its sources under a project directory that does
\* not exist yet; the directory and then a config file in it are created
\* afterwards (creating_directory_of_watched_file_and_adding_config_is_detected
\* and its batched variant, for either program).
ProjectDir == <<"dir">>

NextCreation ==
  \/ CreateDirectory(ProjectDir)
  \/ \E n \in ConfigNameSet : WriteFile(ProjectDir, n, "{}")
  \/ (~DirExists(ProjectDir) /\ \E path \in SourcePaths : get_config_for_file(path))
  \/ (~DirExists(ProjectDir) /\ \E file_path \in SourcePaths : load_for_file(file_path))
  \/ poll_and_process_changes
  \/ loader_refresh

InitCreation ==
  /\ Init
  /\ backend = "inotify"
  /\ budget = MaxBatch
  /\ ~DirExists(ProjectDir)
  /\ SourcesExist

SpecCreation == InitCreation /\ [][NextCreation]_vars

\* The file the host of the Windows build has open.
ProjectFile == Append(ProjectDir, JsName)

\* A host call that takes watched_directories_mutex_ waits while
\* handle_directory_event holds it.
HostWithMutex ==
  /\ watched_directories_mutex_ = "unlocked"
  /\ in_destructor = "no"
  /\ \/ get_config_for_file(ProjectFile)
     \/ poll_and_process_changes

\* The build for Windows with the I/O thread's steps interleaved with the
\* host's calls and with other processes.
NextWindows ==
  \/ FilesystemMutation
  \/ HostWithMutex
  \/ run_io_thread_dequeue
  \/ handle_directory_event_step

InitWindows ==
  /\ Init
  /\ program = "detector"
  /\ backend = "win32"
  /\ budget = MaxMutations
  /\ SourcesExist
  /\ fs_cfg \in SingleConfig(fs_dirs)

SpecWindows == InitWindows /\ [][NextWindows]_vars

\* A host that refreshes only when its wait on the change event is satisfied.
WaitAndRefresh ==
  /\ Signalled
  /\ poll_and_process_changes

\* The build for Windows with such a host, and an I/O thread and a host
\* that are not starved.
NextWakeUp ==
  \/ FilesystemMutation
  \/ get_config_for_file(ProjectFile)
  \/ WaitAndRefresh
  \/ run_io_thread

\* Weak fairness of the I/O thread's loop and of the host's wait and
\* refresh, the latter with its enabling condition written out: the wait is
\* satisfied and resets the event, so the step changes the state.
SpecWakeUp ==
  /\ InitWindows
  /\ [][NextWakeUp]_vars
  /\ WF_vars(run_io_thread)
  /\ \/ []<>(~(program = "detector" /\ ~crashed /\ Signalled))
     \/ []<><<WaitAndRefresh>>_vars

\* The build for Linux with other processes running between the statements
\* of process_changes; the host makes one call at a time.
NextDrain ==
  \/ FilesystemMutation
  \/ (in_process_changes = None /\ \E path \in SourcePaths : get_config_for_file(path))
  \/ process_changes_step

InitLinuxDetector == InitSingle /\ program = "detector"

SpecDrain == InitLinuxDetector /\ [][NextDrain]_vars

\* The build for Linux to the end of the detector's life, with other
\* processes that also delete project directories.
NextTeardown ==
  \/ FilesystemMutation
  \/ \E path \in DirPaths : RemoveDirectory(path)
  \/ (in_destructor = "no" /\ Detector)
  \/ inotify_destructor

SpecTeardown == InitLinuxDetector /\ [][NextTeardown]_vars

\* The configuration_filesystem of the Windows build from its construction
\* to the end of its destructor.
NextLifetime ==
  \/ MoveDirectory(ProjectDir, <<"newdir">>)
  \/ CreateDirectory(ProjectDir)
  \/ WriteFile(ProjectDir, ConfigFileNames[1], "{}")
  \/ HostWithMutex
  \/ run_io_thread_dequeue
  \/ handle_directory_event_step
  \/ win32_destructor

InitLifetime ==
  /\ Init
  /\ program = "detector"
  /\ backend = "win32"
  /\ budget = MaxBatch
  /\ SourcesExist
  /\ fs_cfg \in SingleConfig(fs_dirs)

SpecLifetime == InitLifetime /\ [][NextLifetime]_vars

\* The same with threads that the scheduler does not starve.
SpecShutdown ==
  /\ SpecLifetime
  /\ WF_vars(run_io_thread_dequeue)
  /\ WF_vars(handle_directory_event_step)
  /\ WF_vars(win32_destructor)

\* The change detector of each build with other processes that act while a
\* get_config_for_file call is between canonicalize_path and its walk.
NextRace ==
  \/ FilesystemMutation
  \/ \E path \in SourcePaths : get_config_for_file_canonicalize(path)
  \/ get_config_for_file_resume

SpecRace == InitBackends /\ [][NextRace]_vars

\* Resolution alone: a host that asks for the configuration of its sources
\* in a project where source files or their directory may be missing
\* (finding_config_succeeds_even_if_file_is_missing,
\* finding_config_succeeds_even_if_directory_is_missing,
\* config_is_found_initially_in_parent_dir_if_dir_doesnt_exist).
NextResolution ==
  \/ \E path \in SourcePaths : get_config_for_file(path)
  \/ \E file_path \in SourcePaths : load_for_file(file_path)
  \/ \E file \in FilesToLint : load_for_file_to_lint(file)

InitResolution == Init /\ backend = "inotify" /\ budget = MaxMutations

SpecResolution == InitResolution /\ [][NextResolution]_vars

(***************************************************************************)
(* Properties.                                                             *)
(***************************************************************************)
\* The path of registered source number i.
SourcePath(i) ==
  IF program = "detector" THEN watches_[i].watched_file_path ELSE watched_paths_[i]

\* The sources named by the change list of the last refresh.
Changed == {changes[k].watch : k \in 1..Len(changes)}

ChangesFor(i) == {k \in 1..Len(changes) : changes[k].watch = i}

\* C1: after a refresh (of either program), every registered source whose
\* governing config path or governing bytes differ from what the host was
\* last given for it is in the change list; in particular every source
\* governed by a rewritten config file is.
C1_Completeness ==
  last_op = "refresh" =>
    \A i \in 1..Len(pre_view) :
      (Governing(SourcePath(i)) # ErrorView /\ pre_view[i] # Governing(SourcePath(i)))
        => i \in Changed

C3_NearerShadowsFarther ==
  (last_op = "load" /\ returned.ok /\ returned.input # None
     /\ returned.config_file # None)
    => LET found == ScanWalk(Walk(ParentDirectory(returned.input[1])), 1)
       IN /\ found.status = "found"
          /\ Parent(returned.config_file[1]) = Parent(found.config_path)

\* C4: when both config names are readable files in the nearest directory
\* that holds a config, get_config_for_file / load_for_file resolve that
\* directory's quick-lint-js.config; .quick-lint-js.config is resolved only
\* when quick-lint-js.config is not found next to it.
C4_PrimaryShadowsSecondary ==
  (last_op = "load" /\ returned.ok /\ returned.input # None)
    => LET found == ScanWalk(Walk(ParentDirectory(returned.input[1])), 1)
           nearest == Parent(found.config_path)
       IN /\ (/\ found.status = "found"
              /\ ReadPath(Append(nearest, "quick-lint-js.config")).ok
              /\ ReadPath(Append(nearest, ".quick-lint-js.config")).ok)
               => returned.config_file = Some(Append(nearest, "quick-lint-js.config"))
          /\ (/\ returned.config_file # None
              /\ returned.config_file[1][Len(returned.config_file[1])] = ".quick-lint-js.config")
               => ~ReadPath(Append(Parent(returned.config_file[1]),
                                   "quick-lint-js.config")).ok

\* C5: in each backend, when the wait found the wake-up channel not
\* signalled (inotify descriptor not readable, no kevent, change event not
\* set), process_changes reports no changes: every mutation that alters what
\* a watched source resolves to has signalled the channel by then.
C5_WakeUpCoversChanges ==
  (program = "detector" /\ last_op = "refresh" /\ timed_out) => changes = <<>>

\* After a refresh of the detector, the path recorded for each watch and the
\* bytes cached for it are what the resolver finds on the filesystem.
RecordedIsResolved ==
  \A i \in 1..Len(watches_) :
    LET g == Governing(watches_[i].watched_file_path)
    IN /\ watches_[i].config_file_path = g.config_file_path
       /\ g.config_file_path # None
            => /\ g.config_file_path[1] \in DOMAIN loaded_config_files_
               /\ loaded_config_files_[g.config_file_path[1]].file_content = g.content

\* C6 as stated: a detector refresh made with no filesystem mutation since
\* the end of the previous get_config_for_file or refresh call appends no
\* changes, and after a refresh the recorded path and cached bytes of every
\* watch equal what the resolver finds.
C6_AsStated ==
  (program = "detector" /\ last_op = "refresh")
    => /\ quiet => changes = <<>>
       /\ RecordedIsResolved

\* C6 amended: a detector refresh made with no filesystem mutation since the
\* previous refresh (since the first get_config_for_file, when there was no
\* refresh yet) appends no changes, and after a refresh the recorded path
\* and cached bytes of every watch equal what the resolver finds.
C6_QuietRefresh ==
  (program = "detector" /\ last_op = "refresh")
    => /\ ~was_stale => changes = <<>>
       /\ RecordedIsResolved

\* A refresh of two watches, one of them with a config, with mutations
\* before the previous refresh and none since.
C6_Witness ==
  /\ program = "detector"
  /\ last_op = "refresh"
  /\ ~was_stale
  /\ quiet
  /\ Len(watches_) = 2
  /\ mutations >= 1
  /\ pre_read # <<>>
  /\ \E i \in 1..Len(watches_) : watches_[i].config_file_path # None

\* C7: a loader refresh made with no filesystem mutation since the previous
\* load_for_file or refresh returns an empty list; the formula takes only
\* the refreshes with no mutation since the previous refresh either, and
\* only sources whose config search meets no unreadable entry.
C7_LoaderQuietRefresh ==
  (/\ program = "loader"
   /\ last_op = "refresh"
   /\ quiet
   /\ ~was_stale
   /\ \A i \in 1..Len(watched_paths_) : Governing(watched_paths_[i]) # ErrorView)
    => changes = <<>>

\* The sources for which the premise of content identity holds at the last
\* refresh: the source resolves to the config path the host last had for
\* it, and the file there has the bytes a resolver pass last read there.
SameBytesAsLastRead(i) ==
  LET g == Governing(SourcePath(i))
  IN /\ g.config_file_path # None
     /\ g.config_file_path = pre_view[i].config_file_path
     /\ g.config_file_path[1] \in DOMAIN pre_read
     /\ pre_read[g.config_file_path[1]] = g.content

NewlyGoverned(i) ==
  LET g == Governing(SourcePath(i))
  IN /\ g.config_file_path # None
     /\ g.config_file_path # pre_view[i].config_file_path

\* The last refresh reported exactly one change for source i, naming the
\* source and a configuration that records the governing config path.
ReportedOnce(i) ==
  /\ Cardinality(ChangesFor(i)) = 1
  /\ \A k \in ChangesFor(i) :
       /\ changes[k].watched_path = SourcePath(i)
       /\ Deref(loaded_config_files_, changes[k].config).config_file_path
            = Governing(SourcePath(i)).config_file_path

\* C9: (detector) when a config file has become the governing config of
\* registered sources, the next refresh reports exactly one change for each
\* of them, each reported configuration records the new file's path, and no
\* source is reported twice.
C9_DetectorReportsEachSourceOnce ==
  (program = "detector" /\ last_op = "refresh")
    => /\ \A i \in 1..Len(pre_view) : NewlyGoverned(i) => ReportedOnce(i)
       /\ \A i \in 1..Len(pre_view) : Cardinality(ChangesFor(i)) <= 1

\* A config created for two registered sources at once.
C9_Witness ==
  /\ program = "detector"
  /\ last_op = "refresh"
  /\ Len(pre_view) = 2
  /\ NewlyGoverned(1)
  /\ NewlyGoverned(2)
  /\ Len(changes) = 2
  /\ changes[1].config = changes[2].config

\* C10: (loader) when a config file has become the governing config of
\* sources registered with load_for_file(path), the next refresh reports
\* exactly one change for each of them, each naming the new config file, and
\* no source is reported twice.
C10_LoaderReportsEachSourceOnce ==
  (program = "loader" /\ last_op = "refresh")
    => /\ \A i \in 1..Len(pre_view) : NewlyGoverned(i) => ReportedOnce(i)
       /\ \A i \in 1..Len(pre_view) : Cardinality(ChangesFor(i)) <= 1

\* The config file the host last had for source i is no longer a readable
\* file at its path: it was deleted or renamed away.
GoverningGone(i) ==
  /\ pre_view[i].config_file_path # None
  /\ ~ReadPath(pre_view[i].config_file_path[1]).ok

\* The last refresh reported exactly one change for source i, naming the
\* source and the configuration that governs it now: the path and bytes of
\* the next config file in precedence order, or the default configuration.
ReportedFallback(i) ==
  /\ Cardinality(ChangesFor(i)) = 1
  /\ \A k \in ChangesFor(i) :
       /\ changes[k].watched_path = SourcePath(i)
       /\ View(loaded_config_files_, changes[k].config) = Governing(SourcePath(i))
       /\ Governing(SourcePath(i)).config_file_path = None
            <=> changes[k].config = DefaultAddress

\* C11: (detector) when the config file that governed a watched source has
\* been deleted or renamed away, the next refresh reports exactly one change
\* for that source, and its configuration is the next one in precedence
\* order: the secondary name in the same directory, else the nearest
\* ancestor's config, else the default configuration with no path.
C11_DetectorReportsDeletion ==
  (program = "detector" /\ last_op = "refresh")
    => \A i \in 1..Len(pre_view) : GoverningGone(i) => ReportedFallback(i)

\* Two sources lose their config; one falls back to another config file.
C11_Witness ==
  /\ program = "detector"
  /\ last_op = "refresh"
  /\ Len(pre_view) = 2
  /\ GoverningGone(1)
  /\ GoverningGone(2)
  /\ \E i \in 1..2 : Governing(SourcePath(i)).config_file_path # None

\* C12: (loader) when the config file that governed a source registered
\* with load_for_file(path) has been deleted or renamed away, the next
\* refresh reports exactly one change for that source, naming the fallback
\* configuration (secondary name, else the nearest ancestor's config, else
\* the default configuration), also when the fallback file is in the cache
\* already with unchanged bytes.
C12_LoaderReportsDeletion ==
  (program = "loader" /\ last_op = "refresh")
    => \A i \in 1..Len(pre_view) :
         (GoverningGone(i) /\ Governing(SourcePath(i)) # ErrorView)
           => ReportedFallback(i)

\* The deepest directory on the way to the file input_path that exists.
DeepestExistingAncestor(input_path) ==
  LET existing == {k \in 0..(Len(input_path) - 1) : DirExists(SubSeq(input_path, 1, k))}
  IN SubSeq(input_path, 1, CHOOSE k \in existing : \A j \in existing : j <= k)

\* The directory has an entry with one of the config names.
HasConfigEntry(directory) ==
  \E n \in ConfigNameSet : ~ReadPath(Append(directory, n)).is_not_found_error

\* What a search upward from directory has to find: in the nearest
\* directory with an entry of a config name, the primary name before the
\* secondary; an entry that is not a readable file is an error.
ViewFrom(directory) ==
  LET holding == {k \in 0..Len(directory) : HasConfigEntry(SubSeq(directory, 1, k))}
  IN IF holding = {} THEN [config_file_path |-> None, content |-> ""]
     ELSE LET nearest == SubSeq(directory, 1, CHOOSE k \in holding : \A j \in holding : j <= k)
              primary == Append(nearest, "quick-lint-js.config")
              secondary == Append(nearest, ".quick-lint-js.config")
              config_path == IF ReadPath(primary).is_not_found_error
                               THEN secondary ELSE primary
          IN IF ReadPath(config_path).ok
               THEN [config_file_path |-> Some(config_path),
                     content |-> ReadPath(config_path).content]
               ELSE ErrorView

\* The config file the host last had for source i was in a directory that
\* is no longer at that path.
InsideMissing(i) ==
  /\ pre_view[i].config_file_path # None
  /\ ~DirExists(Parent(pre_view[i].config_file_path[1]))

\* C13: (detector) a source whose directory has been renamed away is
\* resolved, under its registered path, by the walk upward from the deepest
\* directory of that path that still exists; the next refresh reports one
\* change, to the surviving ancestor's config or the default, when the
\* config it had was inside the renamed directory, and no change when its
\* config lies above the renamed directory.
C13_AncestorRename ==
  (program = "detector" /\ last_op = "refresh")
    => \A i \in 1..Len(pre_view) :
         ~DirExists(Parent(SourcePath(i)))
           => LET now == ViewFrom(DeepestExistingAncestor(SourcePath(i)))
              IN /\ watches_[i].config_file_path = now.config_file_path
                 /\ InsideMissing(i)
                      => /\ Cardinality(ChangesFor(i)) = 1
                         /\ \A k \in ChangesFor(i) :
                              /\ changes[k].watched_path = SourcePath(i)
                              /\ View(loaded_config_files_, changes[k].config) = now
                 /\ (/\ pre_view[i].config_file_path = now.config_file_path
                     /\ now.config_file_path # None
                          => /\ now.config_file_path[1] \in DOMAIN pre_read
                             /\ pre_read[now.config_file_path[1]] = now.content)
                      => i \notin Changed

\* /dir was renamed to /newdir under a source that had its config inside
\* /dir: it is reported with the config of the root.
C13_Witness ==
  /\ program = "detector"
  /\ last_op = "refresh"
  /\ DirExists(<<"newdir">>)
  /\ ~DirExists(<<"dir">>)
  /\ \E i \in 1..Len(pre_view) :
       /\ SourcePath(i) = <<"dir", JsName>>
       /\ InsideMissing(i)
       /\ i \in Changed
       /\ ViewFrom(<<>>).config_file_path # None

\* The config files that were created in the project directory.
CreatedConfigs ==
  IF DirExists(ProjectDir)
    THEN {n \in ConfigNameSet : ReadPath(Append(ProjectDir, n)).ok}
    ELSE {}

\* C14: for a source registered while its parent directory is missing, a
\* refresh after the creation of the directory alone reports no change for
\* it, and the first refresh after the creation of a config file in the
\* directory reports exactly one change for it, naming that file; whether
\* a refresh ran between the two creations makes no difference.
C14_CreationIntoMissingDirectory ==
  last_op = "refresh"
    => \A i \in {j \in 1..Len(pre_view) : Parent(SourcePath(j)) = ProjectDir} :
         /\ (DirExists(ProjectDir) /\ CreatedConfigs = {}) => i \notin Changed
         /\ (CreatedConfigs # {} /\ was_stale)
              => /\ Cardinality(ChangesFor(i)) = 1
                 /\ \A k \in ChangesFor(i) :
                      /\ changes[k].watched_path = SourcePath(i)
                      /\ \E n \in CreatedConfigs :
                           View(loaded_config_files_, changes[k].config).config_file_path
                             = Some(Append(ProjectDir, n))

\* C15: the change list of one refresh is a subsequence of the registration
\* list: every change names a registered source by the path it was
\* registered with, and the changes are in strictly increasing order of
\* registration, so no source has two.
C15_ChangesInRegistrationOrder ==
  last_op = "refresh"
    => /\ \A k \in 1..Len(changes) :
            /\ changes[k].watch \in 1..Registered
            /\ changes[k].watched_path = SourcePath(changes[k].watch)
       /\ \A k, l \in 1..Len(changes) : k < l => changes[k].watch < changes[l].watch

\* A refresh that reports two sources registered with different paths.
C15_Witness ==
  /\ last_op = "refresh"
  /\ Len(changes) = 2
  /\ changes[1].watched_path # changes[2].watched_path
  /\ mutations >= 1

\* The configuration objects that exist: default_config_ and the config of
\* every node of loaded_config_files_.
LivePointers ==
  {DefaultAddress}
    \cup {loaded_config_files_[p].address : p \in DOMAIN loaded_config_files_}

\* No config file is found from the directory of input_path up to the root.
NoConfigApplies(input_path) ==
  Governing(input_path) = [config_file_path |-> None, content |-> ""]

\* C16: get_config_for_file returns a pointer to a configuration that
\* exists, every change of a refresh carries such a pointer and the path of
\* a registered source, and for a source that no config file applies to the
\* pointer is the one default configuration, which records no
\* config_file_path.
C16_NoNullResults ==
  /\ (program = "detector" /\ last_op = "load")
       => /\ returned.ok
          /\ returned.config \in LivePointers
          /\ NoConfigApplies(returned.input[1])
               => /\ returned.config = DefaultAddress
                  /\ Deref(loaded_config_files_, returned.config).config_file_path = None
  /\ last_op = "refresh"
       => \A k \in 1..Len(changes) :
            /\ changes[k].config \in LivePointers
            /\ changes[k].watched_path \in SourcePaths
            /\ NoConfigApplies(changes[k].watched_path)
                 => /\ changes[k].config = DefaultAddress
                    /\ Deref(loaded_config_files_, changes[k].config).config_file_path = None

\* A refresh gives out the default configuration for a source that had a
\* config file, in a program that has configurations loaded.
C16_Witness ==
  /\ last_op = "refresh"
  /\ loaded_config_files_ # <<>>
  /\ \E k \in 1..Len(changes) :
       /\ NoConfigApplies(changes[k].watched_path)
       /\ pre_view[changes[k].watch].config_file_path # None
       /\ changes[k].config = DefaultAddress

\* C17: a refresh in which the resolution of a source hits an error other
\* than not-found (a config-file name that is a directory) runs to its end,
\* reports no change for that source and leaves the host with the
\* configuration it had for it.
C17_RefreshToleratesErrors ==
  last_op \in {"refresh", "crash"}
    => \A i \in 1..Len(pre_view) :
         Governing(SourcePath(i)) = ErrorView
           => /\ ~crashed
              /\ i \notin Changed
              /\ host_view[i] = pre_view[i]

\* C18: whatever loads and refreshes came before, load_for_file(path) returns
\* the configuration of the config file that a walk over the filesystem as
\* it is now finds for path (nearest directory, primary name first), and the
\* default configuration exactly when that walk finds none.
C18_LoadIsFunctionOfFilesystem ==
  (program = "loader" /\ last_op = "load" /\ returned.input # None
     /\ Governing(returned.input[1]) # ErrorView)
    => /\ returned.ok
       /\ Deref(loaded_config_files_, returned.config).config_file_path
            = Governing(returned.input[1]).config_file_path
       /\ returned.config = DefaultAddress
            <=> Governing(returned.input[1]).config_file_path = None

\* C19: a source whose file or directory is missing is resolved all the
\* same, by a walk that starts at the deepest existing ancestor directory
\* of its path: the call returns what is found from there (a config file in
\* that very directory included), and from the parent directory of a source
\* that exists.
C19_MissingTrailingComponents ==
  (last_op = "load" /\ returned.input # None)
    => /\ returned.ok
       /\ View(loaded_config_files_, returned.config)
            = ViewFrom(DeepestExistingAncestor(returned.input[1]))

\* A source file that is missing from its directory gets the config file of
\* that directory, not the one of the root.
C19_Witness ==
  /\ last_op = "load"
  /\ returned.input = Some(<<"dir", JsName>>)
  /\ DirExists(<<"dir">>)
  /\ fs_dirs[<<"dir">>] \notin fs_js
  /\ ReadPath(<<ConfigFileNames[1]>>).ok
  /\ returned.config_file = Some(<<"dir", ConfigFileNames[2]>>)

\* C20: when the first config-file name that exists on the way up from the
\* source is a directory, load_for_file returns an error that names it, and
\* neither the configuration of another name or of an ancestor directory
\* nor the default configuration.
C20_UnreadableConfigIsError ==
  LET NearestEntry(directory) ==
        LET holding == {k \in 0..Len(directory) : HasConfigEntry(SubSeq(directory, 1, k))}
        IN IF holding = {} THEN None
           ELSE LET nearest == SubSeq(directory, 1,
                                      CHOOSE k \in holding : \A j \in holding : j <= k)
                    primary == Append(nearest, "quick-lint-js.config")
                    secondary == Append(nearest, ".quick-lint-js.config")
                IN Some(IF ReadPath(primary).is_not_found_error THEN secondary
                        ELSE primary)
  IN
  (program = "loader" /\ last_op = "load" /\ returned.input # None
     /\ ViewFrom(DeepestExistingAncestor(returned.input[1])) = ErrorView)
    => /\ ~returned.ok
       /\ Some(returned.error) = NearestEntry(DeepestExistingAncestor(returned.input[1]))

\* C21: load_for_file with an explicit config path gives the configuration
\* of exactly that path when the file there can be read and an error that
\* names the path when it cannot, whatever config files the project has
\* and whatever was loaded before.
C21_ExplicitConfigPath ==
  [][\A file \in FilesToLint :
       (file.config_file # None /\ load_for_file_to_lint(file))
         => IF ReadPath(file.config_file[1]).ok
              THEN /\ returned'.ok
                   /\ Deref(loaded_config_files_', returned'.config).config_file_path
                        = file.config_file
              ELSE /\ ~returned'.ok
                   /\ returned'.error = file.config_file[1]]_vars

\* C22: every change of a refresh names its source by the path string the
\* host registered it with, also when the file or its directory has been
\* renamed or removed since.
C22_WatchedPathAsRegistered ==
  last_op = "refresh"
    => \A k \in 1..Len(changes) :
         /\ changes[k].watch \in 1..Len(given_paths)
         /\ changes[k].watched_path = given_paths[changes[k].watch]

\* A change for a source whose directory was renamed.
C22_Witness ==
  /\ last_op = "refresh"
  /\ ~DirExists(<<"dir">>)
  /\ DirExists(<<"newdir">>)
  /\ \E k \in 1..Len(changes) : changes[k].watched_path = <<"dir", JsName>>

\* The directories a refresh of the change detector walks through.
VisitedDirectories ==
  UNION {{Walk(ParentDirectory(watches_[i].watched_file_path))[k] :
            k \in 1..Len(Walk(ParentDirectory(watches_[i].watched_file_path)))} :
           i \in 1..Len(watches_)}

\* The backend watches the directory that is at the path now.
AlreadyWatched(directory) ==
  /\ DirExists(directory)
  /\ IF backend = "inotify" THEN inotify_watches[fs_dirs[directory]] # 0
     ELSE IF backend = "kqueue" THEN DirVnode(fs_dirs[directory]) \in kqueue_watched_
     ELSE /\ directory \in DOMAIN win32_watched_directories_
          /\ win32_watched_directories_[directory].directory_id = fs_dirs[directory]

\* C23: a refresh over a filesystem that has not changed since the sources
\* were resolved, all of whose directories are watched already, leaves the
\* watches and open handles of the backend as they were, in each of the
\* three backends.
C23_EnterDirectoryIdempotent ==
  [][(/\ poll_and_process_changes
      /\ ~stale
      /\ \A d \in VisitedDirectories : AlreadyWatched(d))
       => UNCHANGED <<inotify_watches, watch_descriptors_, kqueue_watched_,
                      kqueue_watched_directories_, win32_watched_directories_>>]_vars

\* C24: when the directory a get_config_for_file call is about to walk from
\* has been renamed away since the call canonicalized its path, the call
\* skips the watch for it and returns a configuration; it does not abort.
C24_WatchingIsBestEffort ==
  [][(/\ in_get_config_file # None
      /\ ~DirExists(in_get_config_file[1].parent_directory)
      /\ get_config_for_file_resume)
       => /\ ~crashed'
          /\ returned'.ok]_vars

\* C25: every get_config_file of get_config_for_file and of refresh calls
\* enter_directory once for each directory from the parent directory of the
\* watched file up to the root, also above the directory where the config
\* file was found; it calls read_file no more once a read_file has
\* succeeded; and when the call returns every directory it walked is
\* watched, one that has just come to exist included.
C25_WatchCoverageOfWalk ==
  last_op \in {"load", "refresh"} =>
  /\ \A j \in 1..Len(fs_calls) :
       LET calls == fs_calls[j]
           e == SelectSeq(calls, LAMBDA c : c.call = "enter_directory")
           entered == [k \in 1..Len(e) |-> e[k].directory]
           watch == IF last_op = "load" THEN Len(watches_) ELSE j
           start == ParentDirectory(watches_[watch].watched_file_path)
       IN /\ Len(entered) = Len(start) + 1
          /\ \A k \in 1..Len(entered) :
               entered[k] = SubSeq(start, 1, Len(start) + 1 - k)
          /\ \A a, b \in 1..Len(calls) :
               (a < b /\ calls[a].call = "read_file" /\ calls[a].ok)
                 => calls[b].call # "read_file"
          /\ \A k \in 1..Len(entered) : AlreadyWatched(entered[k])
  /\ Len(fs_calls) = (IF last_op = "load" THEN 1 ELSE Len(watches_))

\* A refresh after a change in the filesystem finds the config file in the
\* project directory and goes on to enter the root.
C25_Witness ==
  /\ last_op = "refresh"
  /\ mutations = 1
  /\ \E j \in 1..Len(fs_calls) : \E a, b \in 1..Len(fs_calls[j]) :
       /\ a < b
       /\ fs_calls[j][a].call = "read_file"
       /\ fs_calls[j][a].ok
       /\ fs_calls[j][a].directory = <<"dir">>
       /\ fs_calls[j][b].call = "enter_directory"
       /\ fs_calls[j][b].directory = <<>>
  /\ AlreadyWatched(<<"dir">>)
  /\ AlreadyWatched(<<>>)

\* C26: every read_file call of configuration_change_detector_impl names the
\* directory of the latest enter_directory call before it in the same
\* get_config_file, so the watch on a directory is requested before any
\* config name in it is read.
C26_WatchBeforeRead ==
  \A j \in 1..Len(fs_calls) : \A b \in 1..Len(fs_calls[j]) :
    fs_calls[j][b].call = "read_file"
      => \E a \in 1..(b - 1) :
           /\ fs_calls[j][a].call = "enter_directory"
           /\ fs_calls[j][a].directory = fs_calls[j][b].directory
           /\ \A c \in (a + 1)..(b - 1) : fs_calls[j][c].call = "read_file"

\* A refresh whose get_config_file read names in the project directory,
\* found none, and read on in the root.
C26_Witness ==
  /\ last_op = "refresh"
  /\ \E j \in 1..Len(fs_calls) : \E a, b \in 1..Len(fs_calls[j]) :
       /\ a < b
       /\ fs_calls[j][a].call = "read_file"
       /\ fs_calls[j][a].directory = <<"dir">>
       /\ fs_calls[j][b].call = "read_file"
       /\ fs_calls[j][b].directory = <<>>

\* C27: the config path recorded for a watched file, when there is one, is a
\* key of loaded_config_files_: every watch.config_file_path of the change
\* detector and every value of the loader's input_path_config_files_; the
\* assertion of find_and_load_config_file_for_input does not fail.
C27_RecordedPathIsCacheKey ==
  /\ \A i \in 1..Len(watches_) :
       watches_[i].config_file_path # None
         => watches_[i].config_file_path[1] \in DOMAIN loaded_config_files_
  /\ \A input_path \in DOMAIN input_path_config_files_ :
       input_path_config_files_[input_path] \in DOMAIN loaded_config_files_
  /\ program = "loader" => ~crashed

\* A refresh has recorded, for a watched file, a config path other than the
\* one its get_config_for_file recorded.
C27_Witness ==
  /\ last_op = "refresh"
  /\ \E k \in 1..Len(changes) :
       /\ changes[k].config_file # None
       /\ watches_[changes[k].watch].config_file_path = changes[k].config_file
       /\ Cardinality(DOMAIN loaded_config_files_) = 2

\* C28: for every entry of loaded_config_files_, in both programs, the
\* configuration's config_file_path is the entry's key and the configuration
\* was last loaded from the entry's file_content; so too after a changed
\* config file has been reset and reloaded.
C28_CacheEntryMatchesKeyAndBytes ==
  \A config_path \in DOMAIN loaded_config_files_ :
    /\ loaded_config_files_[config_path].config.config_file_path = Some(config_path)
    /\ loaded_config_files_[config_path].config.json
         = loaded_config_files_[config_path].file_content

\* The change detector's refresh has reloaded a config file that was loaded
\* before with other bytes.
C28_Witness ==
  /\ program = "detector"
  /\ last_op = "refresh"
  /\ \E k \in 1..Len(changes) :
       /\ changes[k].config_file # None
       /\ changes[k].config_file[1] \in DOMAIN pre_read
       /\ pre_read[changes[k].config_file[1]]
            # loaded_config_files_[changes[k].config_file[1]].file_content
       /\ pre_view[changes[k].watch].config_file_path = changes[k].config_file

\* The steps of handle_directory_event done for the completion in hand.
StepsDone == SubSeq(HandlerSteps, 1, io_thread_[1].done)

\* C29: when the I/O thread handles a directory completion that is not a
\* cancellation, it sets the change event only after it has erased the
\* directory's entry from watched_directories_ and notified
\* watched_directory_unwatched_, in that order, all before it releases the
\* mutex; the event is not set while the entry is still in the map.
C29_BreakHandlingOrder ==
  (io_thread_ # None /\ ~io_thread_[1].completion.aborted)
    => /\ (\E k \in 1..Len(StepsDone) : StepsDone[k] = "SetEvent")
            => /\ io_thread_[1].completion.directory
                    \notin DOMAIN win32_watched_directories_
               /\ change_event_
               /\ \E e, n, v \in 1..Len(StepsDone) :
                    /\ e < n
                    /\ n < v
                    /\ StepsDone[e] = "erase"
                    /\ StepsDone[n] = "notify_all"
                    /\ StepsDone[v] = "SetEvent"
       /\ \A k \in 1..Len(StepsDone) : StepsDone[k] # "unlock"

\* The I/O thread has set the change event for a broken oplock and still
\* holds the mutex.
C29_Witness ==
  /\ backend = "win32"
  /\ io_thread_ # None
  /\ ~io_thread_[1].completion.aborted
  /\ StepsDone = <<"erase", "notify_all", "SetEvent">>
  /\ change_event_
  /\ last_op = "mutate"
  /\ Len(watches_) > 0

\* The directory that is at the path now has an entry with a pending oplock.
Armed(directory) ==
  /\ AlreadyWatched(directory)
  /\ win32_watched_directories_[directory].oplock = "held"

\* C30: with an I/O thread that is not starved, oplock breaks waiting in the
\* completion port are followed by a state in which they have been handled
\* and the change event is set, also when a host call finds an entry still
\* present in between and does not re-arm it; and with a host that refreshes
\* whenever its wait on the event is satisfied, every directory on the path
\* of a watched file is watched with a pending oplock again.  (A process
\* that has aborted does neither.)
C30_NoLostWakeUp ==
  /\ io_completion_port_ # <<>>
       ~> (crashed \/ (io_completion_port_ = <<>> /\ change_event_))
  /\ io_completion_port_ # <<>>
       ~> (crashed \/ \A directory \in VisitedDirectories : Armed(directory))

\* After another process changed the filesystem, a refresh whose wait was
\* satisfied has left every directory on the watched files' paths armed.
C30_Witness ==
  /\ backend = "win32"
  /\ last_op = "refresh"
  /\ mutations = 1
  /\ ~timed_out
  /\ io_completion_port_ = <<>>
  /\ ~change_event_
  /\ Len(watches_) > 0
  /\ \A directory \in VisitedDirectories : Armed(directory)

\* C31: in the Windows build, when a host call returns, every directory it
\* entered has an entry in watched_directories_ that carries the identity of
\* the directory now at that path, also when the call found an entry with
\* another identity under the path: the old watch was cancelled, the I/O
\* thread erased the old entry while the host waited, and the fresh entry was
\* inserted under the same key.
C31_IdentityRebinding ==
  [][HostWithMutex
       => (~crashed'
             => \A j \in 1..Len(fs_calls') : \A k \in 1..Len(fs_calls'[j]) :
                  fs_calls'[j][k].call = "enter_directory"
                    => /\ fs_calls'[j][k].directory
                            \in DOMAIN win32_watched_directories_'
                       /\ win32_watched_directories_'[fs_calls'[j][k].directory].directory_id
                            = fs_dirs'[fs_calls'[j][k].directory])]_vars

\* A refresh has found the entry of the project directory that was moved
\* away, waited while the I/O thread handled its broken oplock, which set the
\* change event, and has watched the directory created in its place.
C31_Witness ==
  /\ backend = "win32"
  /\ last_op = "refresh"
  /\ mutations = 2
  /\ change_event_
  /\ DirExists(<<"newdir">>)
  /\ ProjectDir \in DOMAIN win32_watched_directories_
  /\ win32_watched_directories_[ProjectDir].directory_id = fs_dirs[ProjectDir]
  /\ win32_watched_directories_[ProjectDir].directory_id # fs_dirs[<<"newdir">>]
  /\ win32_watched_directories_[ProjectDir].oplock = "held"

\* C32: with an I/O thread and a host thread that are not starved, the
\* destructor of configuration_filesystem_win32, once begun, returns:
\* whatever watches there are, held, broken already or with nothing left to
\* cancel, and whatever other processes do meanwhile, the I/O thread erases
\* every entry, the wait for the empty map ends and the I/O thread is joined.
C32_ShutdownTerminates ==
  (in_destructor # "no") ~> (in_destructor = "destroyed")

\* The destructor has returned in a program that watched directories, one
\* of whose oplocks another process had broken.
C32_Witness ==
  /\ in_destructor = "destroyed"
  /\ Len(watches_) > 0
  /\ mutations > 0
  /\ change_event_
  /\ DOMAIN win32_watched_directories_ = {}

\* C33: the stop_io_thread completion is in the completion port only when
\* the destructor has seen watched_directories_ empty: no entry is left, no
\* directory completion is queued or in the I/O thread's hands, and the
\* destructor is at its join.  The I/O thread has returned only after it
\* dequeued that completion, and then the map and the port are empty.
C33_ShutdownOrdering ==
  /\ (\E k \in 1..Len(io_completion_port_) : io_completion_port_[k] = StopIoThread)
       => /\ DOMAIN win32_watched_directories_ = {}
          /\ io_completion_port_ = <<StopIoThread>>
          /\ io_thread_ = None
          /\ in_destructor = "joining"
  /\ (io_thread_ # None /\ io_thread_[1].completion = StopIoThread)
       => /\ DOMAIN win32_watched_directories_ = {}
          /\ io_completion_port_ = <<>>
          /\ in_destructor \in {"joining", "destroyed"}
  /\ in_destructor \in {"joining", "destroyed"}
       => DOMAIN win32_watched_directories_ = {}

\* The I/O thread has returned after a shutdown that had cancelled the
\* pending oplock request of a watch and waited for its entry to go.
C33_Witness ==
  /\ io_thread_ = Some([completion |-> StopIoThread, done |-> 0])
  /\ in_destructor = "joining"
  /\ Len(watches_) > 0
  /\ ~change_event_
  /\ mutations = 0

\* C34: the I/O thread is between the lock and the unlock of
\* handle_directory_event exactly when it holds watched_directories_mutex_,
\* and the host is between the lock of the destructor and the sleep of its
\* wait exactly when it holds it, so the two are never there together; and
\* the entries of watched_directories_ come and go only in steps of the I/O
\* thread taken with the mutex held or in host calls that found it free.
C34_MutualExclusion ==
  /\ []((watched_directories_mutex_ = "io_thread")
          <=> (io_thread_ # None /\ io_thread_[1].completion.key = "directory"))
  /\ []((watched_directories_mutex_ = "host") <=> (in_destructor = "cancelled"))
  /\ [][(DOMAIN win32_watched_directories_' # DOMAIN win32_watched_directories_)
          => \/ watched_directories_mutex_ = "io_thread"
             \/ /\ watched_directories_mutex_ = "unlocked"
                /\ io_thread_' = io_thread_
                /\ last_op' \in {"load", "refresh"}]_vars

\* The host sleeps in the wait of the destructor, the mutex released, while
\* the I/O thread holds the mutex and has erased an entry.
C34_Witness ==
  /\ in_destructor = "waiting"
  /\ watched_directories_mutex_ = "io_thread"
  /\ io_thread_[1].done = 1
  /\ DOMAIN win32_watched_directories_ # {}

\* C35 as stated: the change event is a manual-reset event; a host wait
\* that is satisfied leaves it signalled, so that the next wait succeeds
\* too.
C35_ManualReset ==
  [][(backend = "win32" /\ change_event_ /\ poll_and_process_changes)
       => change_event_']_vars

\* C35, amended: the change event is an auto-reset event.  Once the I/O
\* thread has set it, it stays signalled until a host wait on it is
\* satisfied, and that wait resets it: after the host's wait and refresh
\* the event is set only if the I/O thread handled another completion in
\* the meantime.
C35_AutoReset ==
  /\ [][(change_event_ /\ ~change_event_') => poll_and_process_changes]_vars
  /\ [][(backend = "win32" /\ change_event_ /\ poll_and_process_changes)
          => (~change_event_' \/ io_completion_port_' # io_completion_port_)]_vars

\* A satisfied wait of the Windows host has reset the event.
C35_Witness ==
  /\ backend = "win32"
  /\ last_op = "refresh"
  /\ ~timed_out
  /\ ~change_event_
  /\ mutations > 0
  /\ io_completion_port_ = <<>>

\* C36: process_changes of the build for Linux begins by reading every
\* queued event and refreshes afterwards; no other step discards a queued
\* event, so one queued after the drain is still queued when the call
\* ends; and between calls, while what the detector recorded for a source
\* (its config path and that config's bytes) differs from the governing
\* config on disk, the inotify descriptor is readable, so that a change
\* made during or after the refresh leads to another process_changes.
C36_DrainThenRefresh ==
  /\ [][(in_process_changes = None /\ in_process_changes' # None)
          => (inotify_queue' = 0 /\ watches_' = watches_
              /\ loaded_config_files_' = loaded_config_files_)]_vars
  /\ [][inotify_queue' < inotify_queue
          => (in_process_changes = None /\ in_process_changes' # None)]_vars
  /\ []((in_process_changes = None /\ ~crashed /\ backend = "inotify")
          => \A i \in 1..Len(watches_) :
               LET recorded == watches_[i].config_file_path
                   known == [config_file_path |-> recorded,
                             content |-> IF recorded = None THEN ""
                                         ELSE loaded_config_files_[recorded[1]].config.json]
               IN (Governing(SourcePath(i)) # ErrorView
                   /\ known # Governing(SourcePath(i)))
                    => inotify_queue > 0)

\* A process_changes has ended whose refresh ran after another process
\* changed a watched directory between the drain and the refresh: the
\* event of that change is still queued.
C36_Witness ==
  /\ backend = "inotify"
  /\ in_process_changes = None
  /\ last_op = "refresh"
  /\ ~timed_out
  /\ inotify_queue > 0
  /\ changes # <<>>

\* C37: the destructor of the inotify backend removes every recorded watch
\* and every removal succeeds (QLJS_ASSERT(rc == 0) holds), whatever
\* enter_directory calls and filesystem operations came before, deletion
\* of a watched directory included; and watch_descriptors_ never holds a
\* descriptor twice.
C37_ShutdownRemovesWatches ==
  /\ [][inotify_destructor
          => (~crashed' /\ in_destructor' = "destroyed"
              /\ \A k \in 1..Len(watch_descriptors_) :
                   inotify_rm_watch(watch_descriptors_[k]) = 0)]_vars
  /\ [](\A j, k \in 1..Len(watch_descriptors_) :
          watch_descriptors_[j] = watch_descriptors_[k] => j = k)

\* C38: every directory completion that is queued, or that the I/O thread
\* has dequeued and not yet used to erase, belongs to an entry that is in
\* watched_directories_ and whose oplock request has completed the way the
\* completion says; an entry whose request is pending has no completion
\* and every other entry has exactly one, so that each entry is erased
\* once, by its own completion; and no step of handle_directory_event
\* fails the assertion of find_watched_directory.
C38_CompletionOwnsEntry ==
  /\ [](LET pending == io_completion_port_
                        \o (IF io_thread_ # None /\ io_thread_[1].done = 0
                              THEN <<io_thread_[1].completion>> ELSE <<>>)
            completions(directory) ==
              {k \in 1..Len(pending) :
                 pending[k].key = "directory" /\ pending[k].directory = directory}
        IN backend = "win32" =>
             /\ \A k \in 1..Len(pending) :
                  pending[k].key = "directory"
                    => /\ pending[k].directory \in DOMAIN win32_watched_directories_
                       /\ win32_watched_directories_[pending[k].directory].oplock
                            = IF pending[k].aborted THEN "cancelled" ELSE "broken"
             /\ \A directory \in DOMAIN win32_watched_directories_ :
                  Cardinality(completions(directory))
                    = IF win32_watched_directories_[directory].oplock = "held"
                        THEN 0 ELSE 1)
  /\ [][handle_directory_event_step => ~crashed']_vars

\* The I/O thread has erased the entry of a watch whose oplock another
\* process broke, while the completion of a watch that the destructor
\* cancelled waits in the port.
C38_Witness ==
  /\ backend = "win32"
  /\ io_thread_ # None
  /\ io_thread_[1].completion.key = "directory"
  /\ ~io_thread_[1].completion.aborted
  /\ io_thread_[1].done = 1
  /\ \E k \in 1..Len(io_completion_port_) : io_completion_port_[k].aborted
  /\ ~crashed

\* C39: the handler of a completion that carries ERROR_OPERATION_ABORTED
\* erases the entry and leaves the change event as it is in every one of
\* its steps; the change event goes from clear to set only in a step that
\* handles the completion of an oplock broken by another process; so a
\* detector whose watches were only ever cancelled never has the event set.
C39_CancellationIsSilent ==
  /\ [][(io_thread_ # None /\ io_thread_[1].completion.key = "directory"
         /\ io_thread_[1].completion.aborted /\ handle_directory_event_step)
          => /\ change_event_' = change_event_
             /\ io_thread_[1].completion.directory
                  \notin DOMAIN win32_watched_directories_']_vars
  /\ [][(~change_event_ /\ change_event_')
          => \/ /\ io_thread_ # None
                /\ ~io_thread_[1].completion.aborted
                /\ HandlerSteps[io_thread_[1].done + 1] = "SetEvent"
             \/ /\ io_thread_ = None
                /\ \E k \in 1..Len(io_completion_port_) :
                     /\ ~io_completion_port_[k].aborted
                     /\ io_completion_port_[k].key = "directory"
                     /\ Len(io_completion_port_') < Len(io_completion_port_)]_vars
  /\ [](mutations = 0 => ~change_event_)

\* The I/O thread is past the SetEvent statement of the handler for the
\* completion of a watch that the destructor cancelled, and the event is
\* clear.
C39_Witness ==
  /\ backend = "win32"
  /\ io_thread_ # None
  /\ io_thread_[1].completion.key = "directory"
  /\ io_thread_[1].completion.aborted
  /\ io_thread_[1].done = 3
  /\ ~change_event_
  /\ in_destructor \in {"waiting", "notified"}

====
